---- MODULE Spec2Model ----
(***************************************************************************)
(* AXS15231B QSPI panel driver of the esp32display sketches.               *)
(*                                                                         *)
(* Four sketches share the module:                                         *)
(*   "pattern"  src/espsquare.ino 1-476: direct ESP-IDF SPI, chip-select   *)
(*              toggled around every chunk, RAMWR then RAMWRC markers;     *)
(*   "held"     src/unnamed/part_001: direct ESP-IDF SPI, chip-select held *)
(*              over the whole stream, command/address elided after the    *)
(*              first chunk;                                               *)
(*   "gfxraw"   src/espsquare.ino 478-822: Arduino_GFX data bus, pixels    *)
(*              written with writeC8Bytes (opcode 0x02 path);              *)
(*   "eyes"     src/GFXesp32.ino: Arduino_GFX drawing calls only.          *)
(*                                                                         *)
(* The bus is observed through log, the events of the operation in         *)
(* progress (or of the one that completed last).                           *)
(***************************************************************************)
EXTENDS Integers, Sequences, FiniteSets, TLC

(* ---------------- geometry and buffer sizes ---------------- *)

\* The panel of the sketches (#define SCREEN_W / SCREEN_H).
SCREEN_W == 480
SCREEN_H == 320

\* The model's panel: PanelW x PanelH pixels stand for SCREEN_W x SCREEN_H in
\* the stepwise model, so that a full-screen stream is a handful of chunks.
PanelW == 2
PanelH == 3

\* Pixels held by pxbuf of the Arduino_GFX sketch (8192 bytes = 4096 pixels in
\* the source; it does not divide the screen, and neither does this).
PxbufPx == 4

\* sizeof(lcd_cmd_buf)
CMD_BUF_SIZE == 32

\* pxbuf[8192] and the pixels of one chunk of fillDisplayRaw.
PXBUF_SIZE == 8192

Sketches == {"pattern", "held", "gfxraw", "eyes"}
SpiSketches == {"pattern", "held"}

\* sizeof(lcd_px_buf) == SCREEN_W * 2 in the direct-SPI sketches, sizeof(pxbuf)
\* in the Arduino_GFX sketch, for a panel w pixels wide.
PxBufSize(s, w) == IF s = "gfxraw" THEN PxbufPx * 2 ELSE w * 2

\* sizeof of the pixel staging buffer in the stepwise model.
PxCap(s) == PxBufSize(s, PanelW)

(* ---------------- bytes ---------------- *)

U8(v) == v % 256
U16(v) == v % 65536
\* Mutation of HiByte: the shift is left out, the low byte is sent twice.
HiByte_NoShift(v) == U16(v) % 256

\* (uint8_t)(v >> 8) and (uint8_t)v of a uint16_t
HiByte(v) == (U16(v) \div 256) % 256
LoByte(v) == U16(v) % 256

Zeros(n) == [i \in 1..n |-> 0]

\* Mutation of memcpy: the copy is left out, dst keeps what it held.
memcpy_Skipped(dst, src, n) == dst

\* memcpy(dst, src, n): the first n bytes of dst are those of src.
memcpy(dst, src, n) ==
    [i \in 1..Len(dst) |-> IF i <= n THEN src[i] ELSE dst[i]]

\* rgb(r, g, b) of the pattern sketch: RGB565.
rgb(r, g, b) ==
    ((U8(r) - (U8(r) % 8)) * 256) + ((U8(g) - (U8(g) % 4)) * 8) + (U8(b) \div 8)

(* ---------------- bus events ---------------- *)

\* One transmit call as the bus sees it: opcode, address, line mode, whether
\* the command/address phase is sent, the payload bytes read from buffer buf
\* at transmit time, and the chip-select level during the transfer.
TxEvent(cmd, addr, mode, hdr, data, csLevel, buf) ==
    [ev |-> "tx", v |-> 0, cmd |-> cmd, addr |-> addr, mode |-> mode,
     hdr |-> hdr, data |-> data, cs |-> csLevel, buf |-> buf]

\* Any other observable event: a chip-select edge ("cs"), a reset-line write
\* ("rst"), a delay ("delay", in ms) or a drawing call of the library ("draw").
Event(kind, v, csLevel) ==
    [ev |-> kind, v |-> v, cmd |-> 0, addr |-> 0, mode |-> "none",
     hdr |-> FALSE, data |-> <<>>, cs |-> csLevel, buf |-> "none"]

\* t.addr of the first and of the later chunks (RAMWR 0x2C, RAMWRC 0x3C).
RAMWR_ADDR == \h002C00
RAMWRC_ADDR == \h003C00

(* ---------------- lcd_cmd calls ---------------- *)

nullptr == [null |-> TRUE, bytes |-> <<>>]
Ptr(bytes) == [null |-> FALSE, bytes |-> bytes]

\* Mutation of Call: sleep-out (0x11) and display-on (0x29) change places.
Call_DisplayOnFirst(reg, data, len, ms) ==
    [reg |-> IF reg = \h11 THEN \h29 ELSE IF reg = \h29 THEN \h11 ELSE reg,
     data |-> data, len |-> len, delay |-> ms]

\* Mutation of Call: the delay after sleep-out (0x11) is left out.
Call_NoSleepOutDelay(reg, data, len, ms) ==
    [reg |-> reg, data |-> data, len |-> len,
     delay |-> IF reg = \h11 THEN 0 ELSE ms]

\* One call lcd_cmd(reg, data, len), followed by delay(ms) when ms > 0.
Call(reg, data, len, ms) ==
    [reg |-> reg, data |-> data, len |-> len, delay |-> ms]

(* ---------------- lcd_init_display: the register tables ---------------- *)

tbl_bb_unlock ==
    <<\h00, \h00, \h00, \h00, \h00, \h00, \h5A, \hA5>>

tbl_a0 ==
    <<\h00, \h30, \h00, \h02, \h00, \h00, \h05, \h3F, \h30, \h05, \h3F, \h3F,
       \h00, \h00, \h00, \h00, \h00>>

tbl_a2 ==
    <<\h30, \h04, \h14, \h50, \h80, \h30, \h85, \h80, \hB4, \h28, \hFF, \hFF,
       \hFF, \h20, \h50, \h10, \h02, \h06, \h20, \hD0, \hC0, \h01, \h12, \hA0,
       \h91, \hC0, \h20, \h7F, \hFF, \h00, \h06>>

tbl_d0 ==
    <<\h80, \hB4, \h21, \h24, \h08, \h05, \h10, \h01, \hF2, \h02, \hC2, \h02,
       \h22, \h22, \hAA, \h03, \h10, \h12, \hC0, \h10, \h10, \h40, \h04, \h00,
       \h30, \h10, \h00, \h03, \h0D, \h12>>

tbl_a3 ==
    <<\hA0, \h06, \hAA, \h00, \h08, \h02, \h0A, \h04, \h04, \h04, \h04, \h04,
       \h04, \h04, \h04, \h04, \h04, \h04, \h04, \h00, \h55, \h55>>

tbl_c1 ==
    <<\h33, \h04, \h02, \h02, \h71, \h05, \h24, \h55, \h02, \h00, \h01, \h01,
       \h53, \hFF, \hFF, \hFF, \h4F, \h52, \h00, \h4F, \h52, \h00, \h45, \h3B,
       \h0B, \h04, \h0D, \h00, \hFF, \h42>>

tbl_c4 ==
    <<\h00, \h24, \h33, \h80, \h66, \hEA, \h64, \h32, \hC8, \h64, \hC8, \h32,
       \h90, \h90, \h11, \h06, \hDC, \hFA, \h00, \h00, \h80, \hFE, \h10, \h10,
       \h00, \h0A, \h0A, \h44, \h50>>

tbl_c5 ==
    <<\h18, \h00, \h00, \h03, \hFE, \hE8, \h3B, \h20, \h30, \h10, \h88, \hDE,
       \h0D, \h08, \h0F, \h0F, \h01, \hE8, \h3B, \h20, \h10, \h10, \h00>>

tbl_c6 ==
    <<\h05, \h0A, \h05, \h0A, \h00, \hE0, \h2E, \h0B, \h12, \h22, \h12, \h22,
       \h01, \h03, \h00, \h02, \h6A, \h18, \hC8, \h22>>

tbl_c7 ==
    <<\h50, \h36, \h28, \h00, \hA2, \h80, \h8F, \h00, \h80, \hFF, \h07, \h11,
       \h9C, \h6F, \hFF, \h24, \h0C, \h0D, \h0E, \h0F>>

tbl_c9 ==
    <<\h33, \h44, \h44, \h01>>

tbl_cf ==
    <<\h2C, \h1E, \h88, \h58, \h13, \h18, \h56, \h18, \h1E, \h68, \hF7, \h00,
       \h66, \h0D, \h22, \hC4, \h0C, \h77, \h22, \h44, \hAA, \h55, \h04, \h04,
       \h12, \hA0, \h08>>

tbl_d5 ==
    <<\h30, \h30, \h8A, \h00, \h44, \h04, \h4A, \hE5, \h02, \h4A, \hE5, \h02,
       \h04, \hD9, \h02, \h47, \h03, \h03, \h03, \h03, \h83, \h00, \h00, \h00,
       \h80, \h52, \h53, \h50, \h50, \h00>>

tbl_d6 ==
    <<\h10, \h32, \h54, \h76, \h98, \hBA, \hDC, \hFE, \h34, \h02, \h01, \h83,
       \hFF, \h00, \h20, \h50, \h00, \h30, \h03, \h03, \h50, \h13, \h00, \h00,
       \h00, \h04, \h50, \h20, \h01, \h00>>

tbl_d7 ==
    <<\h03, \h01, \h09, \h0B, \h0D, \h0F, \h1E, \h1F, \h18, \h1D, \h1F, \h19,
       \h30, \h30, \h04, \h00, \h20, \h20, \h1F>>

tbl_d8 ==
    <<\h02, \h00, \h08, \h0A, \h0C, \h0E, \h1E, \h1F, \h18, \h1D, \h1F, \h19>>

tbl_df ==
    <<\h44, \h33, \h4B, \h69, \h00, \h0A, \h02, \h90>>

tbl_e0 ==
    <<\h1F, \h20, \h10, \h17, \h0D, \h09, \h12, \h2A, \h44, \h25, \h0C, \h15,
       \h13, \h31, \h36, \h2F, \h02>>

tbl_e1 ==
    <<\h3F, \h20, \h10, \h16, \h0C, \h08, \h12, \h29, \h43, \h25, \h0C, \h15,
       \h13, \h32, \h36, \h2F, \h27>>

tbl_e2 ==
    <<\h3B, \h07, \h12, \h18, \h0E, \h0D, \h17, \h35, \h44, \h32, \h0C, \h14,
       \h14, \h36, \h3A, \h2F, \h0D>>

tbl_e3 ==
    <<\h37, \h07, \h12, \h18, \h0E, \h0D, \h17, \h35, \h44, \h32, \h0C, \h14,
       \h14, \h36, \h32, \h2F, \h0F>>

tbl_e4 ==
    <<\h3B, \h07, \h12, \h18, \h0E, \h0D, \h17, \h39, \h44, \h2E, \h0C, \h14,
       \h14, \h36, \h3A, \h2F, \h0D>>

tbl_e5 ==
    <<\h37, \h07, \h12, \h18, \h0E, \h0D, \h17, \h39, \h44, \h2E, \h0C, \h14,
       \h14, \h36, \h3A, \h2F, \h0F>>

tbl_bb_lock ==
    <<\h00, \h00, \h00, \h00, \h00, \h00, \h00, \h00>>

tbl_colmod ==
    <<\h55>>

tbl_madctl ==
    <<\h60>>

InitProgram ==
    <<Call(\h28, nullptr, 0, 20),
      Call(\h10, nullptr, 0, 0),
      Call(\hBB, Ptr(tbl_bb_unlock), 8, 0),
      Call(\hA0, Ptr(tbl_a0), 17, 0),
      Call(\hA2, Ptr(tbl_a2), 31, 0),
      Call(\hD0, Ptr(tbl_d0), 30, 0),
      Call(\hA3, Ptr(tbl_a3), 22, 0),
      Call(\hC1, Ptr(tbl_c1), 30, 0),
      Call(\hC4, Ptr(tbl_c4), 29, 0),
      Call(\hC5, Ptr(tbl_c5), 23, 0),
      Call(\hC6, Ptr(tbl_c6), 20, 0),
      Call(\hC7, Ptr(tbl_c7), 20, 0),
      Call(\hC9, Ptr(tbl_c9), 4, 0),
      Call(\hCF, Ptr(tbl_cf), 27, 0),
      Call(\hD5, Ptr(tbl_d5), 30, 0),
      Call(\hD6, Ptr(tbl_d6), 30, 0),
      Call(\hD7, Ptr(tbl_d7), 19, 0),
      Call(\hD8, Ptr(tbl_d8), 12, 0),
      Call(\hDF, Ptr(tbl_df), 8, 0),
      Call(\hE0, Ptr(tbl_e0), 17, 0),
      Call(\hE1, Ptr(tbl_e1), 17, 0),
      Call(\hE2, Ptr(tbl_e2), 17, 0),
      Call(\hE3, Ptr(tbl_e3), 17, 0),
      Call(\hE4, Ptr(tbl_e4), 17, 0),
      Call(\hE5, Ptr(tbl_e5), 17, 0),
      Call(\hBB, Ptr(tbl_bb_lock), 8, 0),
      Call(\h20, nullptr, 0, 0),
      Call(\h3A, Ptr(tbl_colmod), 1, 0),
      Call(\h11, nullptr, 0, 200),
      Call(\h29, nullptr, 0, 100),
      Call(\h36, Ptr(tbl_madctl), 1, 0)>>

(* ---------------- pure parts of the driver ---------------- *)

\* Mutation of CmdLen: the cap is one byte short of the staging buffer.
CmdLen_OffByOne(len) ==
    IF len >= CMD_BUF_SIZE THEN CMD_BUF_SIZE - 1 ELSE len

\* lcd_cmd: n = (len > sizeof(lcd_cmd_buf)) ? sizeof(lcd_cmd_buf) : len
CmdLen(len) == IF len > CMD_BUF_SIZE THEN CMD_BUF_SIZE ELSE len

\* lcd_cmd: the guard `len > 0 && data`
CmdHasData(c) == c.len > 0 /\ ~c.data.null

\* Mutation of lcd_window: the row address is written before the column
\* address.
lcd_window_RowFirst(x1, y1, x2, y2) ==
    << Call(\h2B, Ptr(<<HiByte(y1), LoByte(y1), HiByte(y2), LoByte(y2)>>), 4, 0),
       Call(\h2A, Ptr(<<HiByte(x1), LoByte(x1), HiByte(x2), LoByte(x2)>>), 4, 0) >>

\* lcd_window: the two lcd_cmd calls, CASET then RASET.
lcd_window(x1, y1, x2, y2) ==
    << Call(\h2A, Ptr(<<HiByte(x1), LoByte(x1), HiByte(x2), LoByte(x2)>>), 4, 0),
       Call(\h2B, Ptr(<<HiByte(y1), LoByte(y1), HiByte(y2), LoByte(y2)>>), 4, 0) >>

\* Mutation of ChunkLen: a full chunk is one byte short of the buffer.
ChunkLen_OneShort(bytes, cap) ==
    IF bytes > cap THEN cap - 1 ELSE bytes

\* Mutation of ChunkLen: the chunk is cut at half the buffer.
ChunkLen_HalfBuffer(bytes, cap) ==
    IF bytes > cap \div 2 THEN cap \div 2 ELSE bytes

\* chunk = (bytes > sizeof(buf)) ? sizeof(buf) : bytes
ChunkLen(bytes, cap) == IF bytes > cap THEN cap ELSE bytes

\* Mutation of Prefill: the two bytes of the colour in the other order.
Prefill_LowFirst(color, cap) ==
    [i \in 1..cap |-> IF i % 2 = 1 THEN U16(color) % 256
                                   ELSE (U16(color) \div 256) % 256]

\* Mutation of Prefill: only the first pixel of the buffer is written.
Prefill_FirstPixelOnly(color, cap) ==
    [i \in 1..cap |-> IF i = 1 THEN (U16(color) \div 256) % 256
                      ELSE IF i = 2 THEN U16(color) % 256
                      ELSE 0]

\* lcd_fill / fillDisplayRaw: buf[i] = hi, buf[i+1] = lo over the whole buffer.
Prefill(color, cap) ==
    [i \in 1..cap |-> IF i % 2 = 1 THEN (U16(color) \div 256) % 256
                                   ELSE U16(color) % 256]

\* Mutation of PixelTrans: `first` is not looked at, every chunk is sent as
\* a first chunk.
PixelTrans_AlwaysStart(s, first, nbytes) ==
    [cmd |-> \h32, addr |-> RAMWR_ADDR, mode |-> "qio", hdr |-> TRUE,
     buf |-> "lcd_px_buf", len |-> nbytes]

\* Mutation of PixelTrans: the chunks after the first are sent without
\* command and address in the variant that toggles chip-select too.
PixelTrans_MarkerElided(s, first, nbytes) ==
    IF ~first
    THEN [cmd |-> 0, addr |-> 0, mode |-> "qio", hdr |-> FALSE,
          buf |-> "lcd_px_buf", len |-> nbytes]
    ELSE [cmd |-> \h32, addr |-> RAMWR_ADDR, mode |-> "qio", hdr |-> TRUE,
          buf |-> "lcd_px_buf", len |-> nbytes]

\* The spi_transaction_t of one pixel chunk of lcd_push_be / lcd_fill.
PixelTrans(s, first, nbytes) ==
    IF s = "held" /\ ~first
    THEN [cmd |-> 0, addr |-> 0, mode |-> "qio", hdr |-> FALSE,
          buf |-> "lcd_px_buf", len |-> nbytes]
    ELSE [cmd |-> \h32, addr |-> IF first THEN RAMWR_ADDR ELSE RAMWRC_ADDR,
          mode |-> "qio", hdr |-> TRUE, buf |-> "lcd_px_buf", len |-> nbytes]

\* Mutation of CmdTrans: the register is not shifted into the address field.
CmdTrans_NoShift(c) ==
    [cmd |-> \h02, addr |-> U8(c.reg), mode |-> "single", hdr |-> TRUE,
     buf |-> IF CmdHasData(c) THEN "lcd_cmd_buf" ELSE "none",
     len |-> IF CmdHasData(c) THEN CmdLen(U8(c.len)) ELSE 0]

\* Mutation of CmdTrans: t.length is taken from sizeof(lcd_cmd_buf), not n.
CmdTrans_WholeBuffer(c) ==
    [cmd |-> \h02, addr |-> U8(c.reg) * 256, mode |-> "single", hdr |-> TRUE,
     buf |-> IF CmdHasData(c) THEN "lcd_cmd_buf" ELSE "none",
     len |-> IF CmdHasData(c) THEN CMD_BUF_SIZE ELSE 0]

\* The spi_transaction_t of lcd_cmd.
CmdTrans(c) ==
    [cmd |-> \h02, addr |-> U8(c.reg) * 256, mode |-> "single", hdr |-> TRUE,
     buf |-> IF CmdHasData(c) THEN "lcd_cmd_buf" ELSE "none",
     len |-> IF CmdHasData(c) THEN CmdLen(U8(c.len)) ELSE 0]

\* bus->writeC8Bytes(reg, buf, n) of the Arduino_GFX data bus: one opcode-0x02
\* register write framed by the library's own chip-select.
writeC8Bytes(reg, bytes, buf) ==
    TxEvent(\h02, U8(reg) * 256, "single", TRUE, bytes, 0, buf)

NoTrans == [cmd |-> 0, addr |-> 0, mode |-> "none", hdr |-> FALSE,
            buf |-> "none", len |-> 0]
NoPx == [kind |-> "none", data |-> <<>>, bytes |-> 0, first |-> FALSE, chunk |-> 0]
NoRect == <<0, 0, 0, 0>>
NoOp == [op |-> "none", rect |-> NoRect, data |-> <<>>, color |-> 0]
NoWin == [set |-> FALSE, rect |-> NoRect, txs |-> <<>>]

IsTx(e) == e.ev = "tx"

\* The transmit calls among the events of a log.
TxOnly(l) == SelectSeq(l, IsTx)

(* ---------------- inputs ---------------- *)

\* Windows asked of the driver: inside the model's panel, and at the
\* coordinates of the real panel (both bytes of a coordinate in use).
ApiRects ==
    { <<0, 0, PanelW - 1, PanelH - 1>>,
      <<0, 0, 0, 0>>,
      <<0, PanelH - 1, PanelW - 1, PanelH - 1>>,
      <<0, 0, SCREEN_W - 1, SCREEN_H - 1>>,
      <<256, 257, SCREEN_W - 1, SCREEN_H - 1>> }

\* Byte lengths streamed: around zero, one and two buffers, and a full screen.
ApiLens(cap) ==
    {0, 1, 2, cap - 1, cap, cap + 1, 2 * cap, 2 * cap + 1, PanelW * PanelH * 2}

\* The caller's bytes: no two bytes of one input are equal.
TestData(n) == [i \in 1..n |-> (250 + i) % 256]

\* Colours of the boot flash and of the loading screen.
ApiColors == {\hF800, \h07E0, \h001F, \h0000}

(* ---------------- state ---------------- *)

VARIABLES
    sketch,        \* the sketch that runs
    pc,            \* position of the single thread of control
    ret,           \* return positions of the calls in progress
    cs,            \* level of the LCD_CS pin
    lcd_px_buf,    \* pixel staging buffer (lcd_px_buf, pxbuf)
    lcd_cmd_buf,   \* command staging buffer
    cmds,          \* lcd_cmd calls still to make in the current straight line
    t,             \* the spi_transaction_t about to be transmitted
    px,            \* locals of lcd_push_be / lcd_fill: data, bytes, first, chunk
    log,           \* bus events of the current operation
    cur,           \* the operation in progress, or the last one completed
    prevWin,       \* the last completed operation, when it was a window write
    fault,         \* a transmit call has returned an error in this session
    fatal,         \* bus or display initialisation has failed in this session
    initialized,   \* lcd_init_display has run to its end
    initRuns,      \* register programs of the completed lcd_init_display runs
    bootq,         \* what is left of setup()
    currentPattern, \* the selection: currentPattern, currentImage, mode
    lastBoot,      \* BOOT level seen by the previous poll
    lastDebounce,  \* millis() when the level last changed between two polls
    now,           \* millis()
    pin,           \* level of BOOT_PIN
    rx,            \* characters waiting in the serial receive buffer
    y,             \* row counter of pattern3 / pattern4, block counter of a decode
    after,         \* where showPattern / showImage returns to
    press,         \* the BOOT press in progress: when it began, the selection then
    fetch,         \* locals of showImage: http, buf, bufSize, total, contentLen, deadline
    port,          \* MainActivity.port: null, or the serial port it refers to
    permissionRequested, \* MainActivity.permissionRequested
    posted,        \* runnables handed to statusText.postDelayed and not yet run
    outstanding,   \* permission requests the system has not yet answered
    hasPermission, \* usbManager.hasPermission(device)
    reopened,      \* openSerial has run while port referred to an open port
    wire,          \* the button pressed last and the bytes its send wrote
    activity,      \* the activity: created, isFinishing, destroyed, ended by an
                   \* exception, receiver registered, listeners set
    toasted        \* text of the last toast

\* No press in progress.
NoPress == [held |-> FALSE, at |-> 0, cycles |-> 0]

\* showImage is not running: no HTTP session, no buffer.
NoFetch ==
    [idx |-> 0, http |-> "none", ends |-> 0, buf |-> "none", frees |-> 0,
     bufSize |-> 0, total |-> 0, contentLen |-> 0, deadline |-> 0,
     elapsed |-> 0, exit |-> "none"]

\* Delays of the three statusText.postDelayed calls, in milliseconds.
START_DELAY_MS == 1000
RECONNECT_DELAY_MS == 500
OPEN_DELAY_MS == 300

\* statusText.postDelayed(run, ms)
Posted(run, ms) == [run |-> run, due |-> ms]

\* No button pressed yet, nothing written.
NoWire == [button |-> 0, data |-> <<>>, seq |-> 0]

\* The activity as constructed, before onCreate: port = null,
\* permissionRequested = false, no receiver, no listener, nothing posted.
MainActivity ==
    /\ port = "null"
    /\ permissionRequested = FALSE
    /\ posted = <<>>
    /\ outstanding = 0
    /\ reopened = FALSE
    /\ wire = NoWire
    /\ activity = [created |-> FALSE, isFinishing |-> FALSE, destroyed |-> FALSE,
                   crashed |-> FALSE, receiver |-> FALSE, listeners |-> 0]
    /\ toasted = "none"

\* The state of loop(): selection, debounce, clock, inputs.
\* The state of the Android activity.
droidvars == <<port, permissionRequested, posted, outstanding, hasPermission,
               reopened, wire, activity, toasted>>

\* What the input handlers of loop() leave alone.
auxvars == <<fetch, droidvars>>

appvars == <<currentPattern, lastBoot, lastDebounce, now, pin, rx, y, after,
             press, auxvars>>

vars == <<sketch, pc, ret, cs, lcd_px_buf, lcd_cmd_buf, cmds, t, px, log, cur,
          prevWin, fault, fatal, initialized, initRuns, bootq, currentPattern,
          lastBoot, lastDebounce, now, pin, rx, y, after, press, fetch, port,
          permissionRequested, posted, outstanding, hasPermission, reopened,
          wire, activity, toasted>>

\* Power-on state of sketch s: statics zeroed, LCD_CS not yet driven.
PowerOn(s, level) ==
    /\ sketch = s
    /\ pc = "boot"
    /\ ret = <<>>
    /\ cs = level
    /\ lcd_px_buf = Zeros(PxCap(s))
    /\ lcd_cmd_buf = Zeros(CMD_BUF_SIZE)
    /\ cmds = <<>>
    /\ t = NoTrans
    /\ px = NoPx
    /\ log = <<>>
    /\ cur = NoOp
    /\ prevWin = NoWin
    /\ fault = FALSE
    /\ fatal = FALSE
    /\ initialized = FALSE
    /\ initRuns = <<>>
    /\ bootq = <<>>
    /\ currentPattern = 0
    /\ lastBoot = TRUE
    /\ lastDebounce = 0
    /\ now = 0
    /\ pin = 1
    /\ rx = <<>>
    /\ y = 0
    /\ after = "idle"
    /\ press = NoPress
    /\ fetch = NoFetch
    /\ MainActivity
    /\ hasPermission = FALSE

Init == \E s \in Sketches, level \in {0, 1} : PowerOn(s, level)

\* return: continue at the innermost return position.
Return ==
    /\ pc' = Head(ret)
    /\ ret' = Tail(ret)

BootFill(c) == [k |-> "fill", color |-> c]
BootWifi == [k |-> "wifi", color |-> 0]
BootRestart == [k |-> "restart", color |-> 0]
BootShow == [k |-> "show", color |-> 0]

(* ---------------- direct-SPI sketches: bus transport ---------------- *)

\* Mutation of SetCs: the two levels are swapped.
SetCs_Swapped(level, l) ==
    /\ cs' = 1 - level
    /\ log' = Append(l, Event("cs", 1 - level, 1 - level))

\* cs_low() / cs_high(): gpio_set_level(LCD_CS, level)
SetCs(level, l) ==
    /\ cs' = level
    /\ log' = Append(l, Event("cs", level, level))

\* The bytes the bus engine reads for transaction tr at transmit time.
Payload(tr) ==
    IF tr.buf = "lcd_cmd_buf" THEN SubSeq(lcd_cmd_buf, 1, tr.len)
    ELSE IF tr.buf = "lcd_px_buf" THEN SubSeq(lcd_px_buf, 1, tr.len)
    ELSE IF tr.buf = "caller" THEN SubSeq(px.data, 1, tr.len)
    ELSE <<>>

\* Where control continues after the transmit call.
AfterTransmit(s, at, kind) ==
    IF at = "cmd_tx" THEN "cmd_end"
    ELSE IF kind = "fill" THEN "fill_next" ELSE "push_next"

\* spi_device_polling_transmit(lcd_spi, &t): blocks until the transfer is
\* over; its esp_err_t result is not looked at by any caller.
spi_device_polling_transmit ==
    /\ sketch \in SpiSketches
    /\ pc \in {"cmd_tx", "px_tx"}
    /\ log' = Append(log, TxEvent(t.cmd, t.addr, t.mode, t.hdr, Payload(t), cs, t.buf))
    /\ \E ok \in BOOLEAN : fault' = (fault \/ ~ok)
    /\ pc' = AfterTransmit(sketch, pc, px.kind)
    /\ UNCHANGED <<sketch, ret, cs, lcd_px_buf, lcd_cmd_buf, cmds, t, px, cur,
                   prevWin, fatal, initialized, initRuns, bootq>>
    /\ UNCHANGED appvars

\* lcd_cmd up to and including cs_low(): build t, copy the data to lcd_cmd_buf.
lcd_cmd_begin ==
    /\ sketch \in SpiSketches
    /\ pc = "cmd"
    /\ LET c == Head(cmds) IN
        /\ t' = CmdTrans(c)
        /\ lcd_cmd_buf' = IF CmdHasData(c)
                          THEN memcpy(lcd_cmd_buf, c.data.bytes, CmdLen(U8(c.len)))
                          ELSE lcd_cmd_buf
    /\ SetCs(0, log)
    /\ pc' = "cmd_tx"
    /\ UNCHANGED <<sketch, ret, lcd_px_buf, cmds, px, cur, prevWin, fault, fatal,
                   initialized, initRuns, bootq>>
    /\ UNCHANGED appvars

\* lcd_cmd from cs_high() on, with the delay() the caller puts after it; then
\* the next lcd_cmd of the straight line, or the caller's continuation.
lcd_cmd_end ==
    /\ sketch \in SpiSketches
    /\ pc = "cmd_end"
    /\ cs' = 1
    /\ log' = log \o <<Event("cs", 1, 1)>>
               \o (IF Head(cmds).delay > 0
                   THEN <<Event("delay", Head(cmds).delay, 1)>> ELSE <<>>)
    /\ cmds' = Tail(cmds)
    /\ IF Tail(cmds) = <<>> THEN Return ELSE pc' = "cmd" /\ ret' = ret
    /\ UNCHANGED <<sketch, lcd_px_buf, lcd_cmd_buf, t, px, cur, prevWin, fault,
                   fatal, initialized, initRuns, bootq>>
    /\ UNCHANGED appvars

(* ---------------- direct-SPI sketches: lcd_push_be ---------------- *)

\* Entry of lcd_push_be: first = true; the held variant asserts chip-select
\* here, once for the whole stream.
lcd_push_be_enter ==
    /\ sketch \in SpiSketches
    /\ pc = "push"
    /\ px' = [kind |-> "push", data |-> cur.data, bytes |-> Len(cur.data),
              first |-> TRUE, chunk |-> 0]
    /\ IF sketch = "held" THEN SetCs(0, log) ELSE UNCHANGED <<cs, log>>
    /\ pc' = "push_loop"
    /\ UNCHANGED <<sketch, ret, lcd_px_buf, lcd_cmd_buf, cmds, t, cur, prevWin,
                   fault, fatal, initialized, initRuns, bootq>>
    /\ UNCHANGED appvars

\* while (bytes > 0) { chunk = ...; memcpy(lcd_px_buf, data, chunk); t = ...;
\* the per-chunk variant asserts chip-select here.
lcd_push_be_chunk ==
    /\ sketch \in SpiSketches
    /\ pc = "push_loop"
    /\ px.bytes > 0
    /\ LET chunk == ChunkLen(px.bytes, PxCap(sketch)) IN
        /\ lcd_px_buf' = memcpy(lcd_px_buf, px.data, chunk)
        /\ t' = PixelTrans(sketch, px.first, chunk)
        /\ px' = [px EXCEPT !.chunk = chunk,
                            !.first = IF sketch = "held" THEN FALSE ELSE @]
    /\ IF sketch = "pattern" THEN SetCs(0, log) ELSE UNCHANGED <<cs, log>>
    /\ pc' = "px_tx"
    /\ UNCHANGED <<sketch, ret, lcd_cmd_buf, cmds, cur, prevWin, fault, fatal,
                   initialized, initRuns, bootq>>
    /\ UNCHANGED appvars

\* After the transmit call: the per-chunk variant deasserts chip-select;
\* first = false; data += chunk; bytes -= chunk.
lcd_push_be_next ==
    /\ sketch \in SpiSketches
    /\ pc = "push_next"
    /\ px' = [px EXCEPT !.first = FALSE,
                        !.data = SubSeq(@, px.chunk + 1, Len(@)),
                        !.bytes = @ - px.chunk]
    /\ IF sketch = "pattern" THEN SetCs(1, log) ELSE UNCHANGED <<cs, log>>
    /\ pc' = "push_loop"
    /\ UNCHANGED <<sketch, ret, lcd_px_buf, lcd_cmd_buf, cmds, t, cur, prevWin,
                   fault, fatal, initialized, initRuns, bootq>>
    /\ UNCHANGED appvars

\* The loop is left with bytes == 0; the held variant deasserts chip-select.
lcd_push_be_exit ==
    /\ sketch \in SpiSketches
    /\ pc = "push_loop"
    /\ px.bytes = 0
    /\ IF sketch = "held" THEN SetCs(1, log) ELSE UNCHANGED <<cs, log>>
    /\ Return
    /\ UNCHANGED <<sketch, lcd_px_buf, lcd_cmd_buf, cmds, t, px, cur, prevWin,
                   fault, fatal, initialized, initRuns, bootq>>
    /\ UNCHANGED appvars

(* ---------------- direct-SPI sketches: lcd_fill ---------------- *)

\* lcd_fill up to the call of lcd_window: pre-fill lcd_px_buf with the colour.
lcd_fill_prefill ==
    /\ sketch \in SpiSketches
    /\ pc = "fill"
    /\ lcd_px_buf' = Prefill(cur.color, PxCap(sketch))
    /\ cmds' = lcd_window(0, 0, PanelW - 1, PanelH - 1)
    /\ ret' = <<"fill_start">> \o ret
    /\ pc' = "cmd"
    /\ UNCHANGED <<sketch, cs, lcd_cmd_buf, t, px, log, cur, prevWin, fault,
                   fatal, initialized, initRuns, bootq>>
    /\ UNCHANGED appvars

\* remaining = SCREEN_W * SCREEN_H; first = true; the held variant asserts
\* chip-select here.
lcd_fill_start ==
    /\ sketch \in SpiSketches
    /\ pc = "fill_start"
    /\ px' = [kind |-> "fill", data |-> <<>>, bytes |-> PanelW * PanelH,
              first |-> TRUE, chunk |-> 0]
    /\ IF sketch = "held" THEN SetCs(0, log) ELSE UNCHANGED <<cs, log>>
    /\ pc' = "fill_loop"
    /\ UNCHANGED <<sketch, ret, lcd_px_buf, lcd_cmd_buf, cmds, t, cur, prevWin,
                   fault, fatal, initialized, initRuns, bootq>>
    /\ UNCHANGED appvars

\* while (remaining > 0) { chunk_px = ...; t = ...; px.bytes counts pixels.
lcd_fill_chunk ==
    /\ sketch \in SpiSketches
    /\ pc = "fill_loop"
    /\ px.bytes > 0
    /\ LET chunk_px == ChunkLen(px.bytes, PxCap(sketch) \div 2) IN
        /\ t' = PixelTrans(sketch, px.first, chunk_px * 2)
        /\ px' = [px EXCEPT !.chunk = chunk_px,
                            !.first = IF sketch = "held" THEN FALSE ELSE @]
    /\ IF sketch = "pattern" THEN SetCs(0, log) ELSE UNCHANGED <<cs, log>>
    /\ pc' = "px_tx"
    /\ UNCHANGED <<sketch, ret, lcd_px_buf, lcd_cmd_buf, cmds, cur, prevWin,
                   fault, fatal, initialized, initRuns, bootq>>
    /\ UNCHANGED appvars

\* After the transmit call: first = false; remaining -= chunk_px.
lcd_fill_next ==
    /\ sketch \in SpiSketches
    /\ pc = "fill_next"
    /\ px' = [px EXCEPT !.first = FALSE, !.bytes = @ - px.chunk]
    /\ IF sketch = "pattern" THEN SetCs(1, log) ELSE UNCHANGED <<cs, log>>
    /\ pc' = "fill_loop"
    /\ UNCHANGED <<sketch, ret, lcd_px_buf, lcd_cmd_buf, cmds, t, cur, prevWin,
                   fault, fatal, initialized, initRuns, bootq>>
    /\ UNCHANGED appvars

lcd_fill_exit ==
    /\ sketch \in SpiSketches
    /\ pc = "fill_loop"
    /\ px.bytes = 0
    /\ IF sketch = "held" THEN SetCs(1, log) ELSE UNCHANGED <<cs, log>>
    /\ Return
    /\ UNCHANGED <<sketch, lcd_px_buf, lcd_cmd_buf, cmds, t, px, cur, prevWin,
                   fault, fatal, initialized, initRuns, bootq>>
    /\ UNCHANGED appvars

(* ---------------- Arduino_GFX sketch: raw helpers ---------------- *)

\* setWindowRaw: beginWrite, CASET, RASET, endWrite; the bytes are sent from
\* the arrays ca and ra on the stack.
setWindowRaw(x1, y1, x2, y2) ==
    << writeC8Bytes(\h2A, <<HiByte(x1), LoByte(x1), HiByte(x2), LoByte(x2)>>, "stack"),
       writeC8Bytes(\h2B, <<HiByte(y1), LoByte(y1), HiByte(y2), LoByte(y2)>>, "stack") >>

\* Mutation of RawReg: every chunk opens a new write at the window origin.
RawReg_AlwaysStart(first) == \h2C

\* The register of a pixel chunk of writePixelsRaw / fillDisplayRaw.
RawReg(first) == IF first THEN \h2C ELSE \h3C

raw_window ==
    /\ sketch = "gfxraw"
    /\ pc = "rawwin"
    /\ log' = log \o setWindowRaw(cur.rect[1], cur.rect[2], cur.rect[3], cur.rect[4])
    /\ Return
    /\ UNCHANGED <<sketch, cs, lcd_px_buf, lcd_cmd_buf, cmds, t, px, cur, prevWin,
                   fault, fatal, initialized, initRuns, bootq>>
    /\ UNCHANGED appvars

\* writePixelsRaw: p = data; first = true
raw_push_enter ==
    /\ sketch = "gfxraw"
    /\ pc = "rawpush"
    /\ px' = [kind |-> "push", data |-> cur.data, bytes |-> Len(cur.data),
              first |-> TRUE, chunk |-> 0]
    /\ pc' = "rawpush_loop"
    /\ UNCHANGED <<sketch, ret, cs, lcd_px_buf, lcd_cmd_buf, cmds, t, log, cur,
                   prevWin, fault, fatal, initialized, initRuns, bootq>>
    /\ UNCHANGED appvars

\* One iteration of the loop of writePixelsRaw.
raw_push_chunk ==
    /\ sketch = "gfxraw"
    /\ pc = "rawpush_loop"
    /\ px.bytes > 0
    /\ LET chunk == ChunkLen(px.bytes, PxCap(sketch))
           buf == memcpy(lcd_px_buf, px.data, chunk) IN
        /\ lcd_px_buf' = buf
        /\ log' = Append(log, writeC8Bytes(RawReg(px.first), SubSeq(buf, 1, chunk),
                                           "lcd_px_buf"))
        /\ px' = [px EXCEPT !.chunk = chunk, !.first = FALSE,
                            !.data = SubSeq(@, chunk + 1, Len(@)),
                            !.bytes = @ - chunk]
    /\ UNCHANGED <<sketch, pc, ret, cs, lcd_cmd_buf, cmds, t, cur, prevWin, fault,
                   fatal, initialized, initRuns, bootq>>
    /\ UNCHANGED appvars

raw_push_exit ==
    /\ sketch = "gfxraw"
    /\ pc = "rawpush_loop"
    /\ px.bytes = 0
    /\ Return
    /\ UNCHANGED <<sketch, cs, lcd_px_buf, lcd_cmd_buf, cmds, t, px, log, cur,
                   prevWin, fault, fatal, initialized, initRuns, bootq>>
    /\ UNCHANGED appvars

\* fillDisplayRaw up to its loop: pre-fill pxbuf, setWindowRaw over the whole
\* screen, remaining = W * H, first = true.
raw_fill_enter ==
    /\ sketch = "gfxraw"
    /\ pc = "rawfill"
    /\ lcd_px_buf' = Prefill(cur.color, PxCap(sketch))
    /\ log' = log \o setWindowRaw(0, 0, PanelW - 1, PanelH - 1)
    /\ px' = [kind |-> "fill", data |-> <<>>, bytes |-> PanelW * PanelH,
              first |-> TRUE, chunk |-> 0]
    /\ pc' = "rawfill_loop"
    /\ UNCHANGED <<sketch, ret, cs, lcd_cmd_buf, cmds, t, cur, prevWin, fault,
                   fatal, initialized, initRuns, bootq>>
    /\ UNCHANGED appvars

\* One iteration of the loop of fillDisplayRaw; px.bytes counts pixels.
raw_fill_chunk ==
    /\ sketch = "gfxraw"
    /\ pc = "rawfill_loop"
    /\ px.bytes > 0
    /\ LET chunk == ChunkLen(px.bytes, PxCap(sketch) \div 2) IN
        /\ log' = Append(log, writeC8Bytes(RawReg(px.first),
                                           SubSeq(lcd_px_buf, 1, chunk * 2),
                                           "lcd_px_buf"))
        /\ px' = [px EXCEPT !.chunk = chunk, !.first = FALSE, !.bytes = @ - chunk]
    /\ UNCHANGED <<sketch, pc, ret, cs, lcd_px_buf, lcd_cmd_buf, cmds, t, cur,
                   prevWin, fault, fatal, initialized, initRuns, bootq>>
    /\ UNCHANGED appvars

raw_fill_exit ==
    /\ sketch = "gfxraw"
    /\ pc = "rawfill_loop"
    /\ px.bytes = 0
    /\ Return
    /\ UNCHANGED <<sketch, cs, lcd_px_buf, lcd_cmd_buf, cmds, t, px, log, cur,
                   prevWin, fault, fatal, initialized, initRuns, bootq>>
    /\ UNCHANGED appvars

(* ---------------- operations of the content source ---------------- *)

\* Call a driver primitive; control comes back to `back` when it is over.
StartOp(op, back) ==
    /\ cur' = op
    /\ log' = <<>>
    /\ ret' = <<"op_done", back>>
    /\ IF op.op = "fill"
       THEN /\ pc' = IF sketch = "gfxraw" THEN "rawfill" ELSE "fill"
            /\ cmds' = cmds
       ELSE IF op.op = "push"
       THEN /\ pc' = IF sketch = "gfxraw" THEN "rawpush" ELSE "push"
            /\ cmds' = cmds
       ELSE /\ pc' = IF sketch = "gfxraw" THEN "rawwin" ELSE "cmd"
            /\ cmds' = IF sketch = "gfxraw" THEN cmds
                       ELSE lcd_window(op.rect[1], op.rect[2], op.rect[3], op.rect[4])

FillOp(c) == [op |-> "fill", rect |-> NoRect, data |-> <<>>, color |-> c]
PushOp(d) == [op |-> "push", rect |-> NoRect, data |-> d, color |-> 0]
WindowOp(r) == [op |-> "window", rect |-> r, data |-> <<>>, color |-> 0]

\* setWindow(x1, y1, x2, y2): lcd_window / setWindowRaw
api_window ==
    /\ sketch # "eyes"
    /\ pc = "idle"
    /\ \E r \in ApiRects : StartOp(WindowOp(r), "idle")
    /\ UNCHANGED <<sketch, cs, lcd_px_buf, lcd_cmd_buf, t, px, prevWin, fault,
                   fatal, initialized, initRuns, bootq>>
    /\ UNCHANGED appvars

\* streamPixels(bytes, length): lcd_push_be / writePixelsRaw
api_push ==
    /\ sketch # "eyes"
    /\ pc = "idle"
    /\ \E n \in ApiLens(PxCap(sketch)) : StartOp(PushOp(TestData(n)), "idle")
    /\ UNCHANGED <<sketch, cs, lcd_px_buf, lcd_cmd_buf, t, px, prevWin, fault,
                   fatal, initialized, initRuns, bootq>>
    /\ UNCHANGED appvars

\* fill(color): lcd_fill / fillDisplayRaw
api_fill ==
    /\ sketch # "eyes"
    /\ pc = "idle"
    /\ \E c \in ApiColors : StartOp(FillOp(c), "idle")
    /\ UNCHANGED <<sketch, cs, lcd_px_buf, lcd_cmd_buf, t, px, prevWin, fault,
                   fatal, initialized, initRuns, bootq>>
    /\ UNCHANGED appvars

\* The primitive has returned to its caller.
op_done ==
    /\ pc = "op_done"
    /\ prevWin' = IF cur.op = "window"
                  THEN [set |-> TRUE, rect |-> cur.rect, txs |-> TxOnly(log)]
                  ELSE NoWin
    /\ Return
    /\ UNCHANGED <<sketch, cs, lcd_px_buf, lcd_cmd_buf, cmds, t, px, log, cur,
                   fault, fatal, initialized, initRuns, bootq>>
    /\ UNCHANGED appvars

(* ---------------- setup() ---------------- *)

\* Mutation of lcd_spi_init: setup() goes on when the bus could not be set up.
lcd_spi_init_FailureIgnored ==
    /\ sketch \in SpiSketches
    /\ pc = "boot"
    /\ SetCs(1, log)
    /\ \E ok \in BOOLEAN : fatal' = ~ok
    /\ pc' = "init_display"
    /\ UNCHANGED <<sketch, ret, lcd_px_buf, lcd_cmd_buf, cmds, t, px, cur, prevWin,
                   fault, initialized, initRuns, bootq>>
    /\ UNCHANGED appvars

\* lcd_spi_init: LCD_CS becomes an output at level 1; then the bus and the
\* device are added, and either can fail.  setup() spins for ever on failure.
lcd_spi_init ==
    /\ sketch \in SpiSketches
    /\ pc = "boot"
    /\ SetCs(1, log)
    /\ \E ok \in BOOLEAN :
        /\ fatal' = ~ok
        /\ pc' = IF ok THEN "init_display" ELSE "halt"
    /\ UNCHANGED <<sketch, ret, lcd_px_buf, lcd_cmd_buf, cmds, t, px, cur, prevWin,
                   fault, initialized, initRuns, bootq>>
    /\ UNCHANGED appvars

\* lcd_init_display, the hardware reset: RST high, low, high with its delays;
\* the register program follows as one straight line of lcd_cmd calls.
lcd_init_display_reset ==
    /\ sketch \in SpiSketches
    /\ pc = "init_display"
    /\ cur' = [NoOp EXCEPT !.op = "init"]
    /\ log' = << Event("rst", 1, cs), Event("delay", 10, cs),
                 Event("rst", 0, cs), Event("delay", 130, cs),
                 Event("rst", 1, cs), Event("delay", 300, cs) >>
    /\ cmds' = InitProgram
    /\ ret' = <<"init_done">> \o ret
    /\ pc' = "cmd"
    /\ UNCHANGED <<sketch, cs, lcd_px_buf, lcd_cmd_buf, t, px, prevWin, fault,
                   fatal, initialized, initRuns, bootq>>
    /\ UNCHANGED appvars

\* lcd_init_display has sent its last command ("LCD init done").
lcd_init_display_done ==
    /\ sketch \in SpiSketches
    /\ pc = "init_done"
    /\ initialized' = TRUE
    /\ initRuns' = Append(initRuns, TxOnly(log))
    /\ pc' = "after_init"
    /\ UNCHANGED <<sketch, ret, cs, lcd_px_buf, lcd_cmd_buf, cmds, t, px, log, cur,
                   prevWin, fault, fatal, bootq>>
    /\ UNCHANGED appvars

\* What setup() does after the display is initialised.
SetupRest(s) ==
    IF s = "pattern"
    THEN <<BootFill(\hF800), BootFill(\h07E0), BootFill(\h001F),
           BootFill(rgb(220, 30, 30))>>
    ELSE IF s = "held"
    THEN <<BootFill(\hF800), BootFill(\h07E0), BootFill(\h001F),
           BootFill(\h0000), BootWifi>>
    ELSE <<BootFill(\hF800), BootFill(\h07E0), BootFill(\h0000), BootWifi>>

\* setup() once WiFi is up: showImage(0). When WiFi is down: the Arduino_GFX
\* sketch shows a status screen; both restart.
SetupAfterWifi(s, up) ==
    IF up THEN <<BootShow>>
    ELSE IF s = "gfxraw" THEN <<BootFill(\h0000), BootRestart>>
    ELSE <<BootRestart>>

setup_flash ==
    /\ sketch \in SpiSketches
    /\ pc = "after_init"
    /\ bootq' = SetupRest(sketch)
    /\ pc' = "next"
    /\ UNCHANGED <<sketch, ret, cs, lcd_px_buf, lcd_cmd_buf, cmds, t, px, log, cur,
                   prevWin, fault, fatal, initialized, initRuns>>
    /\ UNCHANGED appvars

setup_fill ==
    /\ pc = "next"
    /\ bootq # <<>>
    /\ Head(bootq).k = "fill"
    /\ StartOp(FillOp(Head(bootq).color), "next")
    /\ bootq' = Tail(bootq)
    /\ UNCHANGED <<sketch, cs, lcd_px_buf, lcd_cmd_buf, t, px, prevWin, fault,
                   fatal, initialized, initRuns>>
    /\ UNCHANGED appvars

\* while (WiFi.status() != WL_CONNECTED && millis() - t0 < 20000) ...
setup_wifi ==
    /\ pc = "next"
    /\ bootq # <<>>
    /\ Head(bootq).k = "wifi"
    /\ \E up \in BOOLEAN : bootq' = SetupAfterWifi(sketch, up)
    /\ UNCHANGED <<sketch, pc, ret, cs, lcd_px_buf, lcd_cmd_buf, cmds, t, px, log,
                   cur, prevWin, fault, fatal, initialized, initRuns>>
    /\ UNCHANGED appvars

setup_restart ==
    /\ pc = "next"
    /\ bootq # <<>>
    /\ Head(bootq).k = "restart"
    /\ pc' = "restart"
    /\ bootq' = <<>>
    /\ UNCHANGED <<sketch, ret, cs, lcd_px_buf, lcd_cmd_buf, cmds, t, px, log,
                   cur, prevWin, fault, fatal, initialized, initRuns>>
    /\ UNCHANGED appvars

\* setup() returns; loop() runs from here on.
setup_done ==
    /\ pc = "next"
    /\ bootq = <<>>
    /\ pc' = "idle"
    /\ UNCHANGED <<sketch, ret, cs, lcd_px_buf, lcd_cmd_buf, cmds, t, px, log,
                   cur, prevWin, fault, fatal, initialized, initRuns, bootq>>
    /\ UNCHANGED appvars

\* ESP.restart(): the device boots again, a new session.
esp_restart ==
    /\ pc = "restart"
    /\ \E level \in {0, 1} :
        /\ sketch' = sketch
        /\ pc' = "boot"
        /\ ret' = <<>>
        /\ cs' = level
        /\ lcd_px_buf' = Zeros(PxCap(sketch))
        /\ lcd_cmd_buf' = Zeros(CMD_BUF_SIZE)
        /\ cmds' = <<>>
        /\ t' = NoTrans
        /\ px' = NoPx
        /\ log' = <<>>
        /\ cur' = NoOp
        /\ prevWin' = NoWin
        /\ fault' = FALSE
        /\ fatal' = FALSE
        /\ initialized' = FALSE
        /\ initRuns' = <<>>
        /\ bootq' = <<>>
    /\ currentPattern' = 0
    /\ lastBoot' = TRUE
    /\ lastDebounce' = 0
    /\ now' = 0
    /\ rx' = <<>>
    /\ y' = 0
    /\ after' = "idle"
    /\ press' = NoPress
    /\ fetch' = NoFetch
    /\ UNCHANGED <<pin, droidvars>>

(* ---------------- Arduino_GFX JPEG viewer: setup() ---------------- *)

\* Hardware reset driven by setup() itself.
gfx_setup_reset ==
    /\ sketch = "gfxraw"
    /\ pc = "boot"
    /\ log' = << Event("rst", 1, cs), Event("delay", 10, cs),
                 Event("rst", 0, cs), Event("delay", 100, cs),
                 Event("rst", 1, cs), Event("delay", 200, cs) >>
    /\ pc' = "gfx_begin"
    /\ UNCHANGED <<sketch, ret, cs, lcd_px_buf, lcd_cmd_buf, cmds, t, px, cur,
                   prevWin, fault, fatal, initialized, initRuns, bootq>>
    /\ UNCHANGED appvars

\* if (!gfx->begin()) { ...; delay(5000); ESP.restart(); }
gfx_begin ==
    /\ sketch = "gfxraw"
    /\ pc = "gfx_begin"
    /\ \E ok \in BOOLEAN :
        /\ fatal' = ~ok
        /\ initialized' = ok
        /\ pc' = IF ok THEN "gfx_colmod" ELSE "restart"
        /\ cs' = IF ok THEN 1 ELSE cs
    /\ UNCHANGED <<sketch, ret, lcd_px_buf, lcd_cmd_buf, cmds, t, px, log, cur,
                   prevWin, fault, initRuns, bootq>>
    /\ UNCHANGED appvars

\* bus->writeC8D8(0x3A, 0x55); delay(10); gfx->setRotation(1); then the flash.
gfx_colmod ==
    /\ sketch = "gfxraw"
    /\ pc = "gfx_colmod"
    /\ log' = log \o <<writeC8Bytes(\h3A, <<\h55>>, "stack"), Event("delay", 10, cs)>>
    /\ bootq' = SetupRest(sketch)
    /\ pc' = "next"
    /\ UNCHANGED <<sketch, ret, cs, lcd_px_buf, lcd_cmd_buf, cmds, t, px, cur,
                   prevWin, fault, fatal, initialized, initRuns>>
    /\ UNCHANGED appvars

(* ---------------- robot eyes sketch: setup() ---------------- *)

\* if (!gfx->begin()) USBSerial.println("gfx->begin() failed!");
eyes_begin ==
    /\ sketch = "eyes"
    /\ pc = "boot"
    /\ \E ok \in BOOLEAN :
        /\ fatal' = ~ok
        /\ initialized' = ok
    /\ pc' = "eyes_setmode"
    /\ UNCHANGED <<sketch, ret, cs, lcd_px_buf, lcd_cmd_buf, cmds, t, px, log, cur,
                   prevWin, fault, initRuns, bootq>>
    /\ UNCHANGED appvars

\* setMode(0): ... gfx->fillScreen(COL_BG)
eyes_setMode ==
    /\ sketch = "eyes"
    /\ pc = "eyes_setmode"
    /\ log' = Append(log, Event("draw", 1, cs))
    /\ pc' = "eyes_home"
    /\ UNCHANGED <<sketch, ret, cs, lcd_px_buf, lcd_cmd_buf, cmds, t, px, cur,
                   prevWin, fault, fatal, initialized, initRuns, bootq>>
    /\ UNCHANGED appvars

\* sceneHome(): fillScreen and the text of the home screen
eyes_sceneHome ==
    /\ sketch = "eyes"
    /\ pc = "eyes_home"
    /\ log' = Append(log, Event("draw", 2, cs))
    /\ pc' = "idle"
    /\ UNCHANGED <<sketch, ret, cs, lcd_px_buf, lcd_cmd_buf, cmds, t, px, cur,
                   prevWin, fault, fatal, initialized, initRuns, bootq>>
    /\ UNCHANGED appvars

(* ---------------- showImage ---------------- *)

\* #define NUM_IMAGES 5
NUM_IMAGES == 5

\* loop() is followed up to this value of millis().
MaxTime == 60

\* Callbacks of one jpeg.decode() call at most.
MaxBlocks == 2

RectBytes(r) == (r[3] - r[1] + 1) * (r[4] - r[2] + 1) * 2

\* Rectangles of the decoded blocks handed to the callback.
BlitRects ==
    { <<0, 0, PanelW - 1, PanelH - 1>>,
      <<0, 0, PanelW - 1, 0>>,
      <<PanelW - 1, PanelH - 1, PanelW - 1, PanelH - 1>> }

\* What a caller of the driver leaves alone.
drivervars == <<sketch, cs, lcd_px_buf, lcd_cmd_buf, t, px, prevWin, fault,
                fatal, initialized, initRuns, bootq>>

\* Scaled width of millis(): the counter wraps at this value.
MillisMod == 128
\* Scaled length of the download deadline (15000 ms in the sketches).
FetchTimeout == 40
\* Time one pass of the download loop takes when nothing is available:
\* available(), connected() and delay(1).
PollMs == 20
\* Scaled size of the buffer when the length is unknown (300000 bytes).
DefaultBuf == 2
\* Most bytes stream->available() reports at once.
MaxAvail == 2

\* http.getSize(): -1 when chunked or unknown.
ContentLens == {-1, 0, 1}

\* min(a, b)
Min(a, b) == IF a < b THEN a ELSE b

\* size_t bufSize = (contentLen > 0) ? (size_t)contentLen : 300000u;
BufSize(contentLen) == IF contentLen > 0 THEN contentLen ELSE DefaultBuf

\* uint32_t deadline = millis() + 15000;
Deadline(m) == (m + FetchTimeout) % MillisMod

\* min(avail, bufSize - total)
ReadLimit(avail, bufSize, total) == Min(avail, bufSize - total)

\* Mutation of showImage: the range check lets NUM_IMAGES through.
showImage_NoUpperCheck(idx, back) ==
    /\ fetch' = [NoFetch EXCEPT !.idx = idx]
    /\ IF idx < 0 \/ idx > NUM_IMAGES
       THEN /\ pc' = back
            /\ UNCHANGED <<currentPattern, cur, log, ret, cmds, y, after>>
       ELSE /\ currentPattern' = idx
            /\ StartOp(FillOp(\h0000), "img_load")
            /\ after' = back
            /\ y' = 0

\* showImage(idx), returning to back: the range check, the selection, then the
\* black screen (lcd_fill(0x0000) / showStatus("Fetching...")).
showImage(idx, back) ==
    /\ fetch' = [NoFetch EXCEPT !.idx = idx]
    /\ IF idx < 0 \/ idx >= NUM_IMAGES
       THEN /\ pc' = back
            /\ UNCHANGED <<currentPattern, cur, log, ret, cmds, y, after>>
       ELSE /\ currentPattern' = idx
            /\ StartOp(FillOp(\h0000), "img_load")
            /\ after' = back
            /\ y' = 0

\* showImage returns: its locals are gone; what is left is what it has done
\* to the HTTP session and to the buffer.
Returned(f) ==
    [NoFetch EXCEPT !.idx = f.idx, !.http = f.http, !.ends = f.ends,
                    !.buf = f.buf, !.frees = f.frees]

\* http.begin(client, url); int code = http.GET();
\* if (code != HTTP_CODE_OK) { showStatus(...); http.end(); return; }
showImage_get ==
    /\ sketch \in {"held", "gfxraw"}
    /\ pc = "img_load"
    /\ fetch' = [fetch EXCEPT !.http = "begun"]
    /\ \E ok \in BOOLEAN :
        IF ok
        THEN /\ pc' = "img_alloc"
             /\ UNCHANGED <<cur, log, ret, cmds>>
        ELSE IF sketch = "gfxraw"
        THEN StartOp(FillOp(\h0000), "img_fail")
        ELSE /\ pc' = "img_fail"
             /\ UNCHANGED <<cur, log, ret, cmds>>
    /\ UNCHANGED drivervars
    /\ UNCHANGED <<currentPattern, lastBoot, lastDebounce, now, pin, rx, y, after,
                   press, droidvars>>

\* http.end(); return;   (HTTP status not OK, or no memory)
showImage_fail ==
    /\ sketch \in {"held", "gfxraw"}
    /\ pc = "img_fail"
    /\ fetch' = Returned([fetch EXCEPT !.http = "ended", !.ends = @ + 1])
    /\ pc' = after
    /\ UNCHANGED drivervars
    /\ UNCHANGED <<cur, log, ret, cmds>>
    /\ UNCHANGED <<currentPattern, lastBoot, lastDebounce, now, pin, rx, y, after,
                   press, droidvars>>

\* contentLen = http.getSize(); buf = heap_caps_malloc(bufSize, ...);
\* if (!buf) buf = malloc(bufSize); if (!buf) { ...; http.end(); return; }
\* size_t total = 0; uint32_t deadline = millis() + 15000;
showImage_alloc ==
    /\ sketch \in {"held", "gfxraw"}
    /\ pc = "img_alloc"
    /\ \E len \in ContentLens, got \in BOOLEAN :
        IF got
        THEN /\ fetch' = [fetch EXCEPT !.contentLen = len,
                                       !.bufSize = BufSize(len),
                                       !.buf = "allocated",
                                       !.total = 0,
                                       !.deadline = Deadline(now),
                                       !.elapsed = 0]
             /\ pc' = "img_read"
             /\ UNCHANGED <<cur, log, ret, cmds>>
        ELSE /\ fetch' = [fetch EXCEPT !.contentLen = len,
                                       !.bufSize = BufSize(len)]
             /\ IF sketch = "gfxraw"
                THEN StartOp(FillOp(\h0000), "img_fail")
                ELSE /\ pc' = "img_fail"
                     /\ UNCHANGED <<cur, log, ret, cmds>>
    /\ UNCHANGED drivervars
    /\ UNCHANGED <<currentPattern, lastBoot, lastDebounce, now, pin, rx, y, after,
                   press, droidvars>>

\* One evaluation of the loop condition and, when it holds, one pass:
\* while (millis() < deadline && total < bufSize) {
\*   avail = stream->available();
\*   if (avail > 0) total += stream->readBytes(buf + total, min(avail, bufSize - total));
\*   else if (!stream->connected()) break;
\*   else delay(1);
\*   if (contentLen > 0 && total >= (size_t)contentLen) break; }
\* A pass that waits is followed while millis() stays within MaxTime.
showImage_read ==
    /\ sketch \in {"held", "gfxraw"}
    /\ pc = "img_read"
    /\ IF ~(now < fetch.deadline /\ fetch.total < fetch.bufSize)
       THEN /\ fetch' = [fetch EXCEPT !.exit = "condition"]
            /\ pc' = "img_end"
            /\ now' = now
       ELSE \E avail \in 0..MaxAvail, connected \in BOOLEAN :
            IF avail > 0
            THEN \E n \in 0..ReadLimit(avail, fetch.bufSize, fetch.total) :
                 /\ now' = now
                 /\ IF fetch.contentLen > 0 /\ fetch.total + n >= fetch.contentLen
                    THEN /\ fetch' = [fetch EXCEPT !.total = @ + n,
                                                   !.exit = "length"]
                         /\ pc' = "img_end"
                    ELSE /\ fetch' = [fetch EXCEPT !.total = @ + n]
                         /\ pc' = "img_read"
            ELSE IF ~connected
            THEN /\ fetch' = [fetch EXCEPT !.exit = "disconnected"]
                 /\ pc' = "img_end"
                 /\ now' = now
            ELSE /\ now + PollMs <= MaxTime
                 /\ now' = (now + PollMs) % MillisMod
                 /\ fetch' = [fetch EXCEPT !.elapsed = @ + PollMs]
                 /\ pc' = "img_read"
    /\ UNCHANGED drivervars
    /\ UNCHANGED <<cur, log, ret, cmds>>
    /\ UNCHANGED <<currentPattern, lastBoot, lastDebounce, pin, rx, y, after,
                   press, droidvars>>

\* http.end(); if (total == 0) { free(buf); showStatus(...); return; }
\* if (jpeg.openRAM(buf, (int)total, jpegDrawCallback)) ... else showStatus(...)
showImage_end ==
    /\ sketch \in {"held", "gfxraw"}
    /\ pc = "img_end"
    /\ IF fetch.total = 0
       THEN /\ fetch' = Returned([fetch EXCEPT !.http = "ended", !.ends = @ + 1,
                                               !.buf = "freed", !.frees = @ + 1])
            /\ IF sketch = "gfxraw"
               THEN StartOp(FillOp(\h0000), after)
               ELSE /\ pc' = after
                    /\ UNCHANGED <<cur, log, ret, cmds>>
       ELSE /\ fetch' = [fetch EXCEPT !.http = "ended", !.ends = @ + 1]
            /\ \E opened \in BOOLEAN :
                IF opened
                THEN /\ pc' = "blit"
                     /\ UNCHANGED <<cur, log, ret, cmds>>
                ELSE IF sketch = "gfxraw"
                THEN StartOp(FillOp(\h0000), "img_free")
                ELSE /\ pc' = "img_free"
                     /\ UNCHANGED <<cur, log, ret, cmds>>
    /\ UNCHANGED drivervars
    /\ UNCHANGED <<currentPattern, lastBoot, lastDebounce, now, pin, rx, y, after,
                   press, droidvars>>

\* jpeg.decode(0, 0, JPEG_AUTO_ROTATE): the decoder calls back for one more
\* block, or is done (jpeg.close()).
jpeg_decode ==
    /\ sketch \in {"held", "gfxraw"}
    /\ pc = "blit"
    /\ \/ /\ y < MaxBlocks
          /\ \E r \in BlitRects : StartOp(WindowOp(r), "blit_push")
          /\ y' = y + 1
       \/ /\ pc' = "img_free"
          /\ UNCHANGED <<cur, log, ret, cmds, y>>
    /\ UNCHANGED drivervars
    /\ UNCHANGED <<currentPattern, lastBoot, lastDebounce, now, pin, rx, after,
                   press>>
    /\ UNCHANGED auxvars

\* jpegCb / jpegDrawCallback after its window call: iWidth * iHeight * 2 bytes
jpegDrawCallback ==
    /\ sketch \in {"held", "gfxraw"}
    /\ pc = "blit_push"
    /\ StartOp(PushOp(TestData(RectBytes(cur.rect))), "blit")
    /\ UNCHANGED drivervars
    /\ UNCHANGED appvars

\* Mutation of showImage_free: the buffer is freed a second time.
showImage_free_Twice ==
    /\ sketch \in {"held", "gfxraw"}
    /\ pc = "img_free"
    /\ fetch' = Returned([fetch EXCEPT !.buf = "freed", !.frees = @ + 2])
    /\ pc' = after
    /\ y' = 0
    /\ UNCHANGED drivervars
    /\ UNCHANGED <<cur, log, ret, cmds>>
    /\ UNCHANGED <<currentPattern, lastBoot, lastDebounce, now, pin, rx, after,
                   press, droidvars>>

\* free(buf); at the end of showImage
showImage_free ==
    /\ sketch \in {"held", "gfxraw"}
    /\ pc = "img_free"
    /\ fetch' = Returned([fetch EXCEPT !.buf = "freed", !.frees = @ + 1])
    /\ pc' = after
    /\ y' = 0
    /\ UNCHANGED drivervars
    /\ UNCHANGED <<cur, log, ret, cmds>>
    /\ UNCHANGED <<currentPattern, lastBoot, lastDebounce, now, pin, rx, after,
                   press, droidvars>>

\* showImage(0) at the end of setup()
setup_showImage ==
    /\ pc = "next"
    /\ bootq # <<>>
    /\ Head(bootq).k = "show"
    /\ showImage(0, "next")
    /\ bootq' = Tail(bootq)
    /\ UNCHANGED <<sketch, cs, lcd_px_buf, lcd_cmd_buf, t, px, prevWin, fault,
                   fatal, initialized, initRuns>>
    /\ UNCHANGED <<lastBoot, lastDebounce, now, pin, rx, press, droidvars>>

(* ---------------- specifications ---------------- *)

Next ==
    \/ spi_device_polling_transmit
    \/ lcd_cmd_begin
    \/ lcd_cmd_end
    \/ lcd_push_be_enter
    \/ lcd_push_be_chunk
    \/ lcd_push_be_next
    \/ lcd_push_be_exit
    \/ lcd_fill_prefill
    \/ lcd_fill_start
    \/ lcd_fill_chunk
    \/ lcd_fill_next
    \/ lcd_fill_exit
    \/ raw_window
    \/ raw_push_enter
    \/ raw_push_chunk
    \/ raw_push_exit
    \/ raw_fill_enter
    \/ raw_fill_chunk
    \/ raw_fill_exit
    \/ api_window
    \/ api_push
    \/ api_fill
    \/ op_done
    \/ lcd_spi_init
    \/ lcd_init_display_reset
    \/ lcd_init_display_done
    \/ setup_flash
    \/ setup_fill
    \/ setup_wifi
    \/ setup_showImage
    \/ setup_restart
    \/ setup_done
    \/ esp_restart
    \/ gfx_setup_reset
    \/ gfx_begin
    \/ gfx_colmod
    \/ eyes_begin
    \/ eyes_setMode
    \/ eyes_sceneHome
    \/ showImage_get
    \/ showImage_fail
    \/ showImage_alloc
    \/ showImage_read
    \/ showImage_end
    \/ jpeg_decode
    \/ jpegDrawCallback
    \/ showImage_free

\* The sketches from power-on, under any sequence of driver primitives.
Spec == Init /\ [][Next]_vars

(* ---------------- reading a log ---------------- *)

\* A pixel transaction: four-line mode, or a write to RAMWR / RAMWRC.
IsPixelTx(e) ==
    e.ev = "tx" /\ (e.mode = "qio" \/ e.addr \in {RAMWR_ADDR, RAMWRC_ADDR})

PixelTxs(l) == SelectSeq(l, IsPixelTx)

\* The marker a pixel transaction carries on the bus.
Marker(e) ==
    IF ~e.hdr THEN "elided"
    ELSE IF e.addr = RAMWR_ADDR THEN "start"
    ELSE IF e.addr = RAMWRC_ADDR THEN "cont"
    ELSE "other"

RECURSIVE ConcatData(_)
ConcatData(txs) ==
    IF txs = <<>> THEN <<>> ELSE Head(txs).data \o ConcatData(Tail(txs))

\* The primitive op of the content source has just returned.
Completed(op) == pc = "op_done" /\ cur.op = op

CeilDiv(a, b) == (a + b - 1) \div b

\* lcd_fill / fillDisplayRaw: one pass of `while (remaining > 0)` over the
\* count of pixels still to send, the chunks sent and the bytes in them; once
\* remaining is 0 the loop has exited and a pass changes nothing.
FillPass(st, capPx) ==
    IF st.remaining = 0 THEN st
    ELSE [remaining |-> st.remaining - ChunkLen(st.remaining, capPx),
          chunks    |-> st.chunks + 1,
          bytes     |-> st.bytes + ChunkLen(st.remaining, capPx) * 2]

\* n passes of the loop, split in halves to keep the evaluation shallow.
RECURSIVE FillPasses(_, _, _)
FillPasses(st, capPx, n) ==
    IF n = 0 \/ st.remaining = 0 THEN st
    ELSE IF n = 1 THEN FillPass(st, capPx)
    ELSE FillPasses(FillPasses(st, capPx, n \div 2), capPx, n - n \div 2)

\* The loop run to its exit: every pass takes at least one pixel, so `pixels`
\* passes are enough.
FillLoop(pixels, capPx) ==
    FillPasses([remaining |-> pixels, chunks |-> 0, bytes |-> 0], capPx, pixels)

\* The fill of the real panel, per sketch.
RealFillSpi == FillLoop(SCREEN_W * SCREEN_H, (SCREEN_W * 2) \div 2)
RealFillRaw == FillLoop(SCREEN_W * SCREEN_H, PXBUF_SIZE \div 2)

(* ---------------- C1 ---------------- *)

ValidRect(r) ==
    /\ 0 <= r[1] /\ r[1] <= r[3] /\ r[3] < SCREEN_W
    /\ 0 <= r[2] /\ r[2] <= r[4] /\ r[4] < SCREEN_H

\* A window write of a valid rectangle has been followed by a stream of
\* exactly the rectangle's bytes, which has returned.
WindowThenStream ==
    /\ Completed("push")
    /\ prevWin.set
    /\ ValidRect(prevWin.rect)
    /\ Len(cur.data) = RectBytes(prevWin.rect)

\* One start marker, then continuation markers only.
StartThenCont(txs) ==
    /\ Len(txs) >= 1
    /\ Marker(txs[1]) = "start"
    /\ \A i \in 2..Len(txs) : Marker(txs[i]) = "cont"

\* One start marker, and it comes first.
OneStartFirst(txs) ==
    /\ Len(txs) >= 1
    /\ Marker(txs[1]) = "start"
    /\ \A i \in 2..Len(txs) : Marker(txs[i]) # "start"

\* One start marker, then chunks with command and address elided.
StartThenElided(txs) ==
    /\ Len(txs) >= 1
    /\ Marker(txs[1]) = "start"
    /\ \A i \in 2..Len(txs) : Marker(txs[i]) = "elided"

\* C1 as the specification has it: setWindow of a valid rectangle followed by
\* streamPixels of exactly its (x2-x1+1)*(y2-y1+1)*2 bytes puts on the bus
\* exactly one start-marker transaction (RAMWR) followed by continuation-marker
\* transactions (RAMWRC) only, in every sketch.
C1_StartThenContinueEverywhere ==
    WindowThenStream => StartThenCont(PixelTxs(log))

\* C1, amended: setWindow of a valid rectangle followed by streamPixels of
\* exactly its bytes puts on the bus exactly one start-marker transaction
\* (RAMWR), first: never two start markers, never a continuation marker first.
\* In the sketches of espsquare.ino (lcd_push_be and writePixelsRaw) every
\* transaction after it carries the continuation marker (RAMWRC); in the held
\* chip-select variant every transaction after it carries no marker at all,
\* its command and address being elided.
C1_OneStartThenContinue ==
    WindowThenStream =>
        /\ OneStartFirst(PixelTxs(log))
        /\ sketch \in {"pattern", "gfxraw"} => StartThenCont(PixelTxs(log))
        /\ sketch = "held" => StartThenElided(PixelTxs(log))

\* A stream of three chunks or more after its window write, in the held
\* chip-select variant.
C1_Witness ==
    /\ WindowThenStream
    /\ sketch = "held"
    /\ Len(PixelTxs(log)) >= 3
    /\ Marker(PixelTxs(log)[3]) = "elided"

\* The same in the sketches that send a marker with every chunk.
StreamWithMarkers ==
    /\ WindowThenStream
    /\ sketch \in {"pattern", "gfxraw"}
    /\ Len(PixelTxs(log)) >= 2
    /\ sketch = "pattern" => Len(PixelTxs(log)) >= 3

(* ---------------- C2 ---------------- *)

\* C2: chunking preserves content: the payloads of the chunks of one
\* streamPixels call, concatenated in dispatch order, are the caller's bytes,
\* and every payload is read from the staging buffer.
C2_ChunkingPreservesContent ==
    Completed("push") =>
        /\ ConcatData(PixelTxs(log)) = cur.data
        /\ \A i \in 1..Len(PixelTxs(log)) : PixelTxs(log)[i].buf = "lcd_px_buf"

\* A stream of more than two buffers has returned.
C2_Witness ==
    /\ Completed("push")
    /\ Len(cur.data) > 2 * PxCap(sketch)
    /\ Len(PixelTxs(log)) >= 3

(* ---------------- C3 ---------------- *)

\* W*H repetitions of the two bytes color >> 8, color & 0xFF
ColorStream(color, pixels) ==
    [i \in 1..(2 * pixels) |-> IF i % 2 = 1 THEN color \div 256 ELSE color % 256]

\* The chunks of a full-screen fill: their number, their content, and the
\* same count by the loop of the code.
FillChunks ==
    /\ Len(PixelTxs(log)) = CeilDiv(PanelW * PanelH * 2, PxCap(sketch))
    /\ ConcatData(PixelTxs(log)) = ColorStream(cur.color, PanelW * PanelH)
    /\ FillLoop(PanelW * PanelH, PxCap(sketch) \div 2)
          = [remaining |-> 0,
             chunks    |-> Len(PixelTxs(log)),
             bytes     |-> Len(ConcatData(PixelTxs(log)))]

\* The loops of lcd_fill and fillDisplayRaw on the 480x320 panel.
RealFill ==
    /\ RealFillSpi.chunks = CeilDiv(SCREEN_W * SCREEN_H * 2, SCREEN_W * 2)
    /\ RealFillSpi.bytes = 307200
    /\ RealFillRaw.chunks = CeilDiv(SCREEN_W * SCREEN_H * 2, PXBUF_SIZE)
    /\ RealFillRaw.bytes = 307200

\* C3 as the specification has it: a full-screen fill sends
\* ceil(W*H*2/bufferCapacity) chunks, the first with the start marker and all
\* later ones with the continuation marker, in every sketch; the payloads are
\* W*H repetitions of the colour's two bytes, 307200 bytes on the 480x320
\* panel.
C3_FillAllMarked ==
    /\ Completed("fill") =>
        /\ FillChunks
        /\ StartThenCont(PixelTxs(log))
    /\ RealFill

\* C3, amended: a full-screen fill sends ceil(W*H*2/bufferCapacity) chunks whose
\* payloads, concatenated, are W*H repetitions of the colour's two bytes,
\* high byte first; the first chunk carries the start marker; every later one
\* carries the continuation marker in the sketches of espsquare.ino and no
\* marker at all (command and address elided) in the held chip-select
\* variant.  On the 480x320 panel the chunks of the loop add up to 307200
\* bytes.
C3_FillStream ==
    /\ Completed("fill") =>
        /\ FillChunks
        /\ sketch \in {"pattern", "gfxraw"} => StartThenCont(PixelTxs(log))
        /\ sketch = "held" => StartThenElided(PixelTxs(log))
    /\ RealFill

\* fill(0xF800) has returned after more than one chunk, in the held
\* chip-select variant.
C3_Witness ==
    /\ Completed("fill")
    /\ sketch = "held"
    /\ cur.color = \hF800
    /\ Len(PixelTxs(log)) >= 2
    /\ PixelTxs(log)[1].data[1] = \hF8
    /\ PixelTxs(log)[1].data[2] = \h00
    /\ Marker(PixelTxs(log)[2]) = "elided"

\* The same fill in the sketches that send a marker with every chunk.
FillWithMarkers ==
    /\ Completed("fill")
    /\ sketch \in {"pattern", "gfxraw"}
    /\ cur.color = \hF800
    /\ Len(PixelTxs(log)) >= 2
    /\ Marker(PixelTxs(log)[2]) = "cont"

(* ---------------- C4 ---------------- *)

\* The two register writes of a window: (register, payload) pairs.
WindowWrites(r) ==
    << << \h2A, <<r[1] \div 256, r[1] % 256, r[3] \div 256, r[3] % 256>> >>,
       << \h2B, <<r[2] \div 256, r[2] % 256, r[4] \div 256, r[4] % 256>> >> >>

RegWrites(txs) == [i \in 1..Len(txs) |-> <<txs[i].addr \div 256, txs[i].data>>]

\* C4: a setWindow(x1,y1,x2,y2) call emits register 0x2A with x1hi,x1lo,
\* x2hi,x2lo then register 0x2B with y1hi,y1lo,y2hi,y2lo whatever was called
\* before, and the same call issued twice in a row emits the same command
\* transactions both times.
C4_WindowIdempotent ==
    Completed("window") =>
        /\ RegWrites(TxOnly(log)) = WindowWrites(cur.rect)
        /\ \A i \in 1..Len(TxOnly(log)) :
              TxOnly(log)[i].cmd = \h02 /\ TxOnly(log)[i].mode = "single"
        /\ (prevWin.set /\ prevWin.rect = cur.rect) => TxOnly(log) = prevWin.txs

\* The same window, with both bytes of its coordinates in use, written twice
\* in a row.
C4_Witness ==
    /\ Completed("window")
    /\ prevWin.set
    /\ prevWin.rect = cur.rect
    /\ cur.rect[1] >= 256
    /\ cur.rect[4] >= 256

(* ---------------- C5 ---------------- *)

\* A streamPixels call of zero bytes is in progress.
InZeroLengthStream ==
    /\ cur.op = "push"
    /\ cur.data = <<>>
    /\ pc \in {"push", "push_loop", "rawpush", "rawpush_loop"}

\* C5: streamPixels with byte length zero is a no-op in every variant: no
\* step of it makes a transmit call or changes the chip-select line.
C5_ZeroLengthIsNoOp ==
    [][InZeroLengthStream => (cs' = cs /\ log' = log)]_vars

(* ---------------- C6 ---------------- *)

\* How many times the initialisation sequence is run in one session.
InitRunsMax == 2

\* lcd_init_display is called again in the session it has already run in:
\* nothing is reset between the two runs.
init_again ==
    /\ sketch \in SpiSketches
    /\ pc = "after_init"
    /\ Len(initRuns) < InitRunsMax
    /\ pc' = "init_display"
    /\ UNCHANGED <<sketch, ret, cs, lcd_px_buf, lcd_cmd_buf, cmds, t, px, log, cur,
                   prevWin, fault, fatal, initialized, initRuns, bootq>>
    /\ UNCHANGED appvars

InitInitTwice == \E s \in SpiSketches, level \in {0, 1} : PowerOn(s, level)

NextInitTwice ==
    \/ lcd_spi_init
    \/ lcd_init_display_reset
    \/ lcd_cmd_begin
    \/ spi_device_polling_transmit
    \/ lcd_cmd_end
    \/ lcd_init_display_done
    \/ init_again

\* The initialisation sequence run more than once in a session.
SpecInitTwice == InitInitTwice /\ [][NextInitTwice]_vars

\* C6: the initialisation sequence run twice without a fault in between
\* leaves initialized = true and puts the same register program on the bus
\* both times: same registers, same order, same payload bytes and lengths.
C6_InitDeterministic ==
    (Len(initRuns) >= 2 /\ ~fault) =>
        /\ initialized
        /\ \A i \in 1..Len(initRuns) :
              /\ initRuns[i] = initRuns[1]
              /\ Len(initRuns[i]) = Len(InitProgram)

\* Two runs have completed without a fault.
C6_Witness ==
    /\ Len(initRuns) = 2
    /\ ~fault
    /\ pc = "after_init"

(* ---------------- C7 ---------------- *)

\* Window writes, pixel transactions and drawing calls among the events.
IsDraw(e) == e.ev \in {"tx", "draw"}

Draws(l) == Len(SelectSeq(l, IsDraw))

\* C7: once bus or display initialisation has failed, no window write, pixel
\* transaction or drawing call is issued in that session.
C7_NoDrawAfterFatal ==
    [][(fatal /\ fatal') => Draws(log') <= Draws(log)]_vars

(* ---------------- C8 ---------------- *)

\* C8: once a transmit call has reported failure, no further transaction is
\* issued in that session.
C8_NoTransferAfterFault ==
    [][(fault /\ fault') => Len(TxOnly(log')) <= Len(TxOnly(log))]_vars

(* ---------------- C9 ---------------- *)

\* A driver operation of the direct-SPI sketches is between its first and its
\* last statement.
InDriverOp ==
    pc \in {"cmd_tx", "cmd_end", "push_loop", "px_tx", "push_next",
            "fill_start", "fill_loop", "fill_next"}

\* C9: in the direct-SPI sketches every transmit call is made with
\* chip-select low, and chip-select is high whenever no driver operation is
\* in progress (once lcd_spi_init has driven the pin).
C9_ChipSelectBracketsTransfers ==
    sketch \in SpiSketches =>
        /\ \A i \in 1..Len(log) : log[i].ev = "tx" => log[i].cs = 0
        /\ (pc # "boot" /\ ~InDriverOp) => cs = 1
        /\ pc \in {"cmd_tx", "px_tx"} => cs = 0

\* A stream of several chunks has returned: transfers were made, and the line
\* is high again.
C9_Witness ==
    /\ sketch \in SpiSketches
    /\ Completed("push")
    /\ Len(TxOnly(log)) >= 3
    /\ cs = 1

(* ---------------- C10 ---------------- *)

\* The events of a log from its first pixel transaction to its last.
RECURSIVE DropToPixel(_)
DropToPixel(l) ==
    IF l = <<>> THEN <<>>
    ELSE IF IsPixelTx(Head(l)) THEN l
    ELSE DropToPixel(Tail(l))

RECURSIVE Reverse(_)
Reverse(l) == IF l = <<>> THEN <<>> ELSE Reverse(Tail(l)) \o <<Head(l)>>

Session(l) == Reverse(DropToPixel(Reverse(DropToPixel(l))))

IsCs(e) == e.ev = "cs"

\* Chip-select goes high and low again between every two consecutive chunks,
\* and every later chunk carries opcode 0x32 with the continuation marker.
PerChunkSession(l) ==
    LET s == Session(l) IN
    /\ \A i \in 1..Len(s) :
          IsPixelTx(s[i]) /\ i > 1 =>
              /\ i >= 4
              /\ s[i-1].ev = "cs" /\ s[i-1].v = 0
              /\ s[i-2].ev = "cs" /\ s[i-2].v = 1
              /\ IsPixelTx(s[i-3])
              /\ s[i].hdr /\ s[i].cmd = \h32 /\ s[i].addr = RAMWRC_ADDR

\* Chip-select does not move between the first chunk and the last, and every
\* later chunk is sent without command and address.
HeldSession(l) ==
    LET s == Session(l) IN
    /\ SelectSeq(s, IsCs) = <<>>
    /\ \A i \in 2..Len(s) : IsPixelTx(s[i]) /\ ~s[i].hdr

\* A streaming session of lcd_push_be or lcd_fill is over.
SessionOver == sketch \in SpiSketches /\ (Completed("push") \/ Completed("fill"))

\* C10: the two framing strategies are not mixed: every session of
\* lcd_push_be and of lcd_fill is per-chunk throughout in the per-chunk sketch
\* and held throughout in the held sketch, so that within one sketch both
\* functions use the same strategy.
C10_OneStrategyPerSketch ==
    SessionOver =>
        /\ sketch = "pattern" => PerChunkSession(log)
        /\ sketch = "held" => HeldSession(log)
        /\ \A i \in 1..Len(PixelTxs(log)) : PixelTxs(log)[i].cs = 0

\* A fill of several chunks is over.
C10_Witness ==
    /\ SessionOver
    /\ cur.op = "fill"
    /\ Len(PixelTxs(log)) >= 3

(* ---------------- C12 ---------------- *)

\* The statements of the driver functions: lcd_cmd, lcd_push_be, lcd_fill,
\* writePixelsRaw, fillDisplayRaw and the transmit call they block on.
StreamStep ==
    \/ spi_device_polling_transmit
    \/ lcd_cmd_begin
    \/ lcd_cmd_end
    \/ lcd_push_be_enter
    \/ lcd_push_be_chunk
    \/ lcd_push_be_next
    \/ lcd_push_be_exit
    \/ lcd_fill_prefill
    \/ lcd_fill_start
    \/ lcd_fill_chunk
    \/ lcd_fill_next
    \/ lcd_fill_exit
    \/ raw_push_enter
    \/ raw_push_chunk
    \/ raw_push_exit
    \/ raw_fill_enter
    \/ raw_fill_chunk
    \/ raw_fill_exit

\* The single thread of setup() and loop() keeps running while it is inside a
\* driver function: nothing preempts it for ever, and the polling transmit
\* call returns.
SpecLive == Spec /\ WF_vars(StreamStep)

\* lcd_push_be / lcd_fill (writePixelsRaw / fillDisplayRaw) has been called
\* and has not returned.
SessionStarted ==
    /\ cur.op \in {"push", "fill"}
    /\ pc \in {"push", "push_loop", "push_next", "px_tx",
              "fill", "cmd", "cmd_tx", "cmd_end", "fill_start", "fill_loop",
              "fill_next", "rawpush", "rawpush_loop", "rawfill", "rawfill_loop"}

\* The bytes a streaming call has to send.
SessionBytes == IF cur.op = "fill" THEN PanelW * PanelH * 2 ELSE Len(cur.data)

\* The call has returned with nothing left to send.
SessionComplete ==
    /\ (Completed("push") \/ Completed("fill"))
    /\ px.bytes = 0
    /\ Len(PixelTxs(log)) = CeilDiv(SessionBytes, PxCap(sketch))
    /\ Len(ConcatData(PixelTxs(log))) = SessionBytes
    /\ sketch \in SpiSketches => cs = 1

\* C12: a streaming session always runs to completion once started:
\* lcd_push_be and lcd_fill return, after exactly ceil(bytes/bufferCapacity)
\* transmit calls, with the remaining count at zero and chip-select high, and
\* they never return in any other way.
C12_SessionRunsToCompletion ==
    /\ [](Completed("push") \/ Completed("fill") => SessionComplete)
    /\ (SessionStarted ~> SessionComplete)

\* A stream of more than two buffers has run to its end.
C12_Witness ==
    /\ SessionComplete
    /\ cur.op = "push"
    /\ Len(cur.data) = 2 * PxCap(sketch) + 1
    /\ Len(PixelTxs(log)) = 3

(* ---------------- C13 ---------------- *)

\* The registers written by a sequence of command transactions, in order.
Regs(txs) == [i \in 1..Len(txs) |-> txs[i].addr \div 256]

\* The registers of the standard command set that the sequence uses.
StandardRegs == {\h28, \h10, \hBB, \h20, \h3A, \h11, \h29, \h36}

\* RST high, low, high, each followed by its delay.
IsHardwareReset(l) ==
    /\ Len(l) = 6
    /\ [i \in 1..6 |-> <<l[i].ev, l[i].v>>] =
          << <<"rst", 1>>, <<"delay", 10>>, <<"rst", 0>>, <<"delay", 130>>,
             <<"rst", 1>>, <<"delay", 300>> >>

\* lcd_init_display has made its last lcd_cmd call; log holds the whole run.
InitRunOver == pc = "init_done" /\ cur.op = "init"

\* C13: the initialisation sequencer issues its steps in one fixed order:
\* hardware reset, display-off (0x28), sleep-in (0x10), register unlock (0xBB
\* ending 5A A5), the proprietary register programs, register lock (0xBB all
\* zero), inversion-off (0x20), colour depth (0x3A), sleep-out (0x11),
\* display-on (0x29) and last the orientation write (0x36); every proprietary
\* program lies between unlock and lock, and sleep-out precedes display-on.
C13_InitOrder ==
    InitRunOver =>
        LET txs == TxOnly(log)
            n   == Len(txs)
            r   == Regs(txs)
        IN
        /\ IsHardwareReset(SubSeq(log, 1, 6))
        /\ n = Len(InitProgram)
        /\ n >= 10
        /\ r[1] = \h28
        /\ r[2] = \h10
        /\ r[3] = \hBB
        /\ SubSeq(txs[3].data, Len(txs[3].data) - 1, Len(txs[3].data)) = <<\h5A, \hA5>>
        /\ \A i \in 4..(n - 6) : r[i] \notin StandardRegs
        /\ r[n - 5] = \hBB
        /\ txs[n - 5].data # <<>>
        /\ \A k \in 1..Len(txs[n - 5].data) : txs[n - 5].data[k] = 0
        /\ r[n - 4] = \h20
        /\ r[n - 3] = \h3A
        /\ r[n - 2] = \h11
        /\ r[n - 1] = \h29
        /\ r[n] = \h36
        /\ \A i \in 1..n : txs[i].mode = "single" /\ txs[i].cmd = \h02

\* The sequence has run to its end without a transfer fault.
C13_Witness ==
    /\ InitRunOver
    /\ ~fault
    /\ Len(TxOnly(log)) = 31

(* ---------------- C16 ---------------- *)

\* A command transaction: single-line mode, opcode 0x02, address register<<8.
IsCommandClass(e) ==
    /\ e.mode = "single"
    /\ e.hdr
    /\ e.cmd = \h02
    /\ e.addr % 256 = 0
    /\ e.addr \div 256 \in 0..255

\* A pixel transaction: four-line mode, opcode 0x32, start or continuation
\* marker.
IsPixelClass(e) ==
    /\ e.mode = "qio"
    /\ e.hdr
    /\ e.cmd = \h32
    /\ e.addr \in {RAMWR_ADDR, RAMWRC_ADDR}

\* The payload is pixel data: it is read from the pixel staging buffer.
CarriesPixels(e) == e.buf = "lcd_px_buf"

\* A later chunk of the held variant: four-line mode, no opcode, no address.
IsElidedPixel(e) ==
    /\ e.mode = "qio"
    /\ ~e.hdr
    /\ CarriesPixels(e)

\* A pixel chunk of the Arduino_GFX image viewer: a register write to 0x2C or
\* 0x3C through the opcode-0x02 path.
IsRegisterPixel(e) ==
    /\ IsCommandClass(e)
    /\ e.addr \in {RAMWR_ADDR, RAMWRC_ADDR}
    /\ CarriesPixels(e)

\* C16 as the specification has it: every transaction is a command
\* transaction (single-line, opcode 0x02, register<<8) or a pixel transaction
\* (four-line, opcode 0x32, 0x002C00 or 0x003C00); four-line mode carries
\* pixel data only, and pixel data never goes through opcode 0x02.
C16_TwoClassesOnly ==
    \A i \in 1..Len(log) :
        log[i].ev = "tx" =>
            /\ IsCommandClass(log[i]) \/ IsPixelClass(log[i])
            /\ log[i].mode = "qio" <=> CarriesPixels(log[i])

\* C16, amended: in the per-chunk direct-SPI sketch every transaction is of
\* one of the two classes; the held variant also sends pixel chunks in
\* four-line mode with opcode and address elided, after the first chunk of a
\* session; the Arduino_GFX image viewer sends every transaction, pixel chunks
\* included, through opcode 0x02 in single-line mode.  In every sketch
\* four-line mode carries pixel data only.
C16_ClassesPerSketch ==
    \A i \in 1..Len(log) :
        log[i].ev = "tx" =>
            /\ sketch = "pattern" =>
                  /\ IsCommandClass(log[i]) \/ IsPixelClass(log[i])
                  /\ log[i].mode = "qio" <=> CarriesPixels(log[i])
            /\ sketch = "held" =>
                  /\ \/ IsCommandClass(log[i])
                     \/ IsPixelClass(log[i]) /\ log[i].addr = RAMWR_ADDR
                     \/ /\ IsElidedPixel(log[i])
                        /\ i > 1
                        /\ log[i-1].ev = "tx"
                        /\ log[i-1].mode = "qio"
                  /\ log[i].mode = "qio" <=> CarriesPixels(log[i])
            /\ sketch = "gfxraw" =>
                  /\ IsCommandClass(log[i])
                  /\ CarriesPixels(log[i]) => IsRegisterPixel(log[i])

\* Each variant has streamed more than one chunk: a session is over in the
\* held variant or in the image viewer.
C16_Witness ==
    /\ sketch \in {"held", "gfxraw"}
    /\ Completed("push")
    /\ Len(PixelTxs(log)) >= 2
    /\ \E i \in 1..Len(log) :
          log[i].ev = "tx" /\ CarriesPixels(log[i]) /\ ~IsPixelClass(log[i])

(* ---------------- C18 ---------------- *)

\* The transmit calls of a log that write register reg.
TxsOfReg(txs, reg) == {i \in 1..Len(txs) : txs[i].addr = reg * 256}

\* The longest table of lcd_init_display.
MaxTableLen ==
    CHOOSE n \in {InitProgram[i].len : i \in 1..Len(InitProgram)} :
        \A i \in 1..Len(InitProgram) : InitProgram[i].len <= n

\* Call i of the sequence reached the controller in full: the payload on the
\* bus is the whole table.
SentInFull(txs, i) ==
    /\ txs[i].addr = InitProgram[i].reg * 256
    /\ Len(txs[i].data) = InitProgram[i].len
    /\ txs[i].data = InitProgram[i].data.bytes

\* C18: the largest table, the 31-byte 0xA2 program, is split across two
\* lcd_cmd calls, and every register program reaches the controller in full.
C18_LargestTableSplit ==
    InitRunOver =>
        LET txs == TxOnly(log) IN
            /\ Cardinality(TxsOfReg(txs, \hA2)) = 2
            /\ Len(ConcatData(SelectSeq(txs, LAMBDA e : e.addr = \hA2 * 256)))
                   = Len(tbl_a2)

\* What the code does: every register program is sent by exactly one lcd_cmd
\* call (0xA2, the largest at 31 bytes, included); each is no longer than the
\* 32-byte staging buffer, so each reaches the controller in full.
OneCallPerProgram ==
    InitRunOver =>
        LET txs == TxOnly(log) IN
            /\ Len(txs) = Len(InitProgram)
            /\ \A i \in 1..Len(InitProgram) : SentInFull(txs, i)
            /\ Cardinality(TxsOfReg(txs, \hA2)) = 1
            /\ MaxTableLen = Len(tbl_a2)
            /\ MaxTableLen < CMD_BUF_SIZE

\* An initialization run is over and the 0xA2 program went out with its 31
\* bytes.
A2SentWhole ==
    /\ InitRunOver
    /\ \E i \in 1..Len(log) :
          /\ log[i].ev = "tx"
          /\ log[i].addr = \hA2 * 256
          /\ log[i].data = tbl_a2
          /\ Len(log[i].data) = MaxTableLen

(* ---------------- C17 ---------------- *)

\* Lengths handed to lcd_cmd (a uint8_t): none, one byte, around the size of
\* the staging buffer, and the largest value.
CmdInputLens ==
    {0, 1, CMD_BUF_SIZE - 1, CMD_BUF_SIZE, CMD_BUF_SIZE + 1, 255}

CmdInputRegs == {\h00, \h2A, \hFF}

\* The arguments of one lcd_cmd call: a buffer of len bytes, or a null
\* pointer with any length.
CmdInputs ==
    {Call(r, Ptr(TestData(n)), n, 0) : r \in CmdInputRegs, n \in CmdInputLens}
        \cup {Call(r, nullptr, n, 0) : r \in CmdInputRegs, n \in {0, 4}}

\* sendCommand(register, data, length): one call of lcd_cmd on the
\* initialised bus.
api_cmd ==
    /\ sketch \in SpiSketches
    /\ pc = "init_display"
    /\ \E c \in CmdInputs : cmds' = <<c>>
    /\ cur' = [NoOp EXCEPT !.op = "cmd"]
    /\ log' = <<>>
    /\ ret' = <<"op_done", "init_display">>
    /\ pc' = "cmd"
    /\ UNCHANGED <<sketch, cs, lcd_px_buf, lcd_cmd_buf, t, px, prevWin, fault,
                   fatal, initialized, initRuns, bootq>>
    /\ UNCHANGED appvars

InitCmd == \E s \in SpiSketches, level \in {0, 1} : PowerOn(s, level)

NextCmd ==
    \/ lcd_spi_init
    \/ api_cmd
    \/ lcd_cmd_begin
    \/ spi_device_polling_transmit
    \/ lcd_cmd_end
    \/ op_done

\* lcd_cmd called with every kind of argument, over and over.
SpecCmd == InitCmd /\ [][NextCmd]_vars

\* min(length, 32)
CmdPayloadLen(c) == IF c.len < CMD_BUF_SIZE THEN c.len ELSE CMD_BUF_SIZE

\* The payload the claim gives the call: the first min(length, 32) bytes of
\* data, nothing when length is 0 or data is null.
CmdPayload(c) ==
    IF c.len = 0 \/ c.data.null THEN <<>>
    ELSE SubSeq(c.data.bytes, 1, CmdPayloadLen(c))

\* lcd_cmd returns from a call made through sendCommand.
CmdReturns ==
    /\ cur.op = "cmd"
    /\ pc = "cmd_end"
    /\ pc' = "op_done"

\* C17: a sendCommand call puts exactly one command transaction on the bus,
\* inside one chip-select cycle, with the first min(length, 32) bytes of
\* data as payload (none when length is 0 or data is null); the payload never
\* exceeds the 32-byte staging buffer and the buffer keeps its 32 bytes.
C17_OneCommandTransaction ==
    [][CmdReturns =>
        LET c == Head(cmds) IN
            /\ Len(log') = 3
            /\ log'[1] = Event("cs", 0, 0)
            /\ log'[2].ev = "tx"
            /\ log'[3] = Event("cs", 1, 1)
            /\ IsCommandClass(log'[2])
            /\ log'[2].addr = c.reg * 256
            /\ log'[2].cs = 0
            /\ log'[2].data = CmdPayload(c)
            /\ Len(log'[2].data) <= CMD_BUF_SIZE
            /\ Len(lcd_cmd_buf') = CMD_BUF_SIZE
            /\ \A i \in 1..CMD_BUF_SIZE :
                  i > Len(CmdPayload(c)) => lcd_cmd_buf'[i] \in {0} \cup
                      {TestData(255)[i]}]_vars

\* A call with more bytes than the staging buffer holds has returned: 32
\* bytes went out.
C17_Witness ==
    /\ cur.op = "cmd"
    /\ pc = "op_done"
    /\ Len(TxOnly(log)) = 1
    /\ Len(log[2].data) = CMD_BUF_SIZE
    /\ log[2].data = SubSeq(TestData(CMD_BUF_SIZE + 1), 1, CMD_BUF_SIZE)

(* ---------------- loop(): the selection and its inputs ---------------- *)

\* The debounce interval of pollBoot / pollBootButton, in ms.
DEBOUNCE_MS == 40

\* delay(20) at the end of loop()
LOOP_DELAY_MS == 20

\* Characters the serial receive buffer holds at most.
MaxRx == 1

\* '\n', '/', '0' .. '5'
RxChars == {10, 47, 48, 49, 50, 51, 52, 53}

\* a % b of C for b > 0: the quotient is truncated towards zero, so the
\* result has the sign of a.
CRem(a, b) == IF a >= 0 THEN a % b ELSE 0 - ((0 - a) % b)

\* (m % 5 + 5) % 5 of showPattern and setMode
Norm(m) == CRem(CRem(m, 5) + 5, 5)

\* Mutation of SelectsChar: the upper end of the range is taken in.
SelectsChar_Inclusive(s, c) == c >= 48 /\ c <= 48 + NUM_IMAGES

\* c >= '0' && c <= '4' (pattern viewer, robot eyes);
\* c >= '0' && c < '0' + NUM_IMAGES (image viewers)
SelectsChar(s, c) ==
    IF s \in {"pattern", "eyes"} THEN c >= 48 /\ c <= 52
    ELSE c >= 48 /\ c < 48 + NUM_IMAGES

\* (c >> 8) | (c << 8) of a uint16_t
Swap16(c) == ((U16(c) \div 256) + (U16(c) % 256) * 256) % 65536

\* The bytes of a uint16_t in memory (little-endian), as lcd_push_be reads
\* rowBuf through a uint8_t pointer.
MemBytes(v, i) == IF i % 2 = 1 THEN LoByte(v) ELSE HiByte(v)

bars ==
    <<rgb(255, 0, 0), rgb(255, 128, 0), rgb(255, 255, 0), rgb(0, 255, 0),
      rgb(0, 0, 255), rgb(75, 0, 130), rgb(148, 0, 211), rgb(255, 255, 255),
      rgb(0, 0, 0)>>

\* pattern3: rowBuf of row yy on a panel w wide and h high
pattern3(yy, w, h) ==
    LET be == Swap16(bars[((yy * Len(bars)) \div h) + 1]) IN
        [i \in 1..(2 * w) |-> MemBytes(be, i)]

\* pattern4: rowBuf of row yy on a panel w wide and h high
pattern4(yy, w, h) ==
    LET bright == U8(255 - (yy * 200) \div h)
        c(x) == rgb(U8((bright * (w - x)) \div w), U8((bright * x) \div w),
                    U8(bright \div 2))
    IN  [i \in 1..(2 * w) |-> MemBytes(Swap16(c((i - 1) \div 2)), i)]

\* pattern0, pattern1, pattern2: the colour handed to lcd_fill
PatternColor(p) ==
    IF p = 0 THEN rgb(220, 30, 30)
    ELSE IF p = 1 THEN rgb(30, 220, 30)
    ELSE rgb(30, 30, 220)

\* Mutation of RowRect: the last column is SCREEN_W, not SCREEN_W - 1.
RowRect_PastEdge(row, w) == <<0, row, w, row>>

\* The window of push_row(row, pixels) on a panel w wide.
RowRect(row, w) == <<0, row, w - 1, row>>

\* showPattern(idx), returning to back
showPattern(idx, back) ==
    /\ currentPattern' = Norm(idx)
    /\ UNCHANGED fetch
    /\ IF Norm(idx) \in {0, 1, 2}
       THEN /\ StartOp(FillOp(PatternColor(Norm(idx))), back)
            /\ UNCHANGED <<y, after>>
       ELSE /\ y' = 0
            /\ after' = back
            /\ pc' = "row"
            /\ UNCHANGED <<cur, log, ret, cmds>>

\* setMode(m); if (mode == 0) sceneHome();
setMode(m, back) ==
    /\ currentPattern' = Norm(m)
    /\ UNCHANGED fetch
    /\ cur' = [NoOp EXCEPT !.op = "draw"]
    /\ log' = <<Event("draw", 1, cs)>>
                \o (IF Norm(m) = 0 THEN <<Event("draw", 2, cs)>> ELSE <<>>)
    /\ pc' = back
    /\ UNCHANGED <<ret, cmds, y, after>>

\* The selecting call of the sketch that runs.
Select(arg, back) ==
    IF sketch = "pattern" THEN showPattern(arg, back)
    ELSE IF sketch = "eyes" THEN setMode(arg, back)
    ELSE showImage(arg, back)

\* The argument of the selecting call on a BOOT press.
NextSelection ==
    IF sketch \in {"held", "gfxraw"} THEN (currentPattern + 1) % NUM_IMAGES
    ELSE currentPattern + 1

\* A character arrives on the serial port. The UART buffers it and the sketch
\* reads it only in pollSerial, so an arrival during a draw or a download is
\* the same to the sketch as an arrival just before the next pollSerial.
serial_rx ==
    /\ pc = "idle"
    /\ Len(rx) < MaxRx
    /\ \E c \in RxChars : rx' = Append(rx, c)
    /\ UNCHANGED <<sketch, pc, ret, cs, lcd_px_buf, lcd_cmd_buf, cmds, t, px, log,
                   cur, prevWin, fault, fatal, initialized, initRuns, bootq,
                   currentPattern, lastBoot, lastDebounce, now, pin, y, after,
                   press>>
    /\ UNCHANGED auxvars

\* The BOOT button is pressed or released. The pin is sampled only by
\* pollBootButton, so a change during a draw or a download is seen as a
\* change just before the next sample.
boot_pin ==
    /\ pc = "idle"
    /\ pin' = 1 - pin
    /\ press' = IF pin = 1 THEN [held |-> TRUE, at |-> now, cycles |-> 0]
                ELSE NoPress
    /\ UNCHANGED <<sketch, pc, ret, cs, lcd_px_buf, lcd_cmd_buf, cmds, t, px, log,
                   cur, prevWin, fault, fatal, initialized, initRuns, bootq,
                   currentPattern, lastBoot, lastDebounce, now, rx, y, after>>
    /\ UNCHANGED auxvars

\* pollSerial / pollSerialCommands: one pass of while (Serial.available()).
pollSerial ==
    /\ pc = "idle"
    /\ IF rx = <<>>
       THEN /\ pc' = "poll_boot"
            /\ UNCHANGED <<rx, currentPattern, cur, log, ret, cmds, y, after,
                           fetch>>
       ELSE /\ rx' = Tail(rx)
            /\ IF SelectsChar(sketch, Head(rx))
               THEN Select(Head(rx) - 48, "idle")
               ELSE UNCHANGED <<pc, currentPattern, cur, log, ret, cmds, y,
                                after, fetch>>
    /\ UNCHANGED drivervars
    /\ UNCHANGED <<lastBoot, lastDebounce, now, pin, press>>
    /\ UNCHANGED droidvars

\* pollBoot / pollBootButton; millis() is read twice, d ms apart.
pollBoot ==
    /\ pc = "poll_boot"
    /\ \E d \in {0, 1} :
        LET b == (pin = 1)
            changed == IF b # lastBoot THEN now ELSE lastDebounce
        IN  /\ lastDebounce' = changed
            /\ lastBoot' = b
            /\ IF (now + d) - changed > DEBOUNCE_MS /\ lastBoot /\ ~b
               THEN /\ Select(NextSelection, "loop_delay")
                    /\ press' = [press EXCEPT !.cycles = @ + 1]
               ELSE /\ pc' = "loop_delay"
                    /\ UNCHANGED <<currentPattern, cur, log, ret, cmds, y,
                                   after, press, fetch>>
    /\ UNCHANGED drivervars
    /\ UNCHANGED <<now, pin, rx>>
    /\ UNCHANGED droidvars

\* The delay at the end of loop(); the robot eyes draw their scene before it.
LoopDelay(s, m) == IF s # "eyes" THEN LOOP_DELAY_MS ELSE IF m = 0 THEN 30 ELSE 33

loop_delay ==
    /\ pc = "loop_delay"
    /\ now + LoopDelay(sketch, currentPattern) <= MaxTime
    /\ now' = now + LoopDelay(sketch, currentPattern)
    /\ pc' = "idle"
    /\ IF sketch = "eyes" /\ currentPattern # 0
       THEN /\ log' = <<Event("draw", 10 + currentPattern, cs)>>
            /\ cur' = [NoOp EXCEPT !.op = "draw"]
       ELSE UNCHANGED <<log, cur>>
    /\ UNCHANGED drivervars
    /\ UNCHANGED <<ret, cmds, currentPattern, lastBoot, lastDebounce, pin, rx, y,
                   after, press>>
    /\ UNCHANGED auxvars

\* pattern3 / pattern4: for (y = 0; y < SCREEN_H; y++) push_row(y, rowBuf), up
\* to the lcd_window call of push_row.
pattern_rows ==
    /\ sketch = "pattern"
    /\ pc = "row"
    /\ IF y < PanelH
       THEN StartOp(WindowOp(RowRect(y, PanelW)), "row_push")
       ELSE /\ pc' = after
            /\ UNCHANGED <<cur, log, ret, cmds>>
    /\ UNCHANGED drivervars
    /\ UNCHANGED appvars

\* push_row: lcd_push_be(pixels, SCREEN_W * 2)
push_row ==
    /\ sketch = "pattern"
    /\ pc = "row_push"
    /\ StartOp(PushOp(IF currentPattern = 3 THEN pattern3(y, PanelW, PanelH)
                      ELSE pattern4(y, PanelW, PanelH)), "row_next")
    /\ UNCHANGED drivervars
    /\ UNCHANGED appvars

\* y++
pattern_next ==
    /\ sketch = "pattern"
    /\ pc = "row_next"
    /\ y' = y + 1
    /\ pc' = "row"
    /\ UNCHANGED <<sketch, ret, cs, lcd_px_buf, lcd_cmd_buf, cmds, t, px, log,
                   cur, prevWin, fault, fatal, initialized, initRuns, bootq,
                   currentPattern, lastBoot, lastDebounce, now, pin, rx, after,
                   press>>
    /\ UNCHANGED auxvars

\* The sketches as they run: setup(), then loop() with its inputs.
NextApp ==
    \/ spi_device_polling_transmit
    \/ lcd_cmd_begin
    \/ lcd_cmd_end
    \/ lcd_push_be_enter
    \/ lcd_push_be_chunk
    \/ lcd_push_be_next
    \/ lcd_push_be_exit
    \/ lcd_fill_prefill
    \/ lcd_fill_start
    \/ lcd_fill_chunk
    \/ lcd_fill_next
    \/ lcd_fill_exit
    \/ raw_window
    \/ raw_push_enter
    \/ raw_push_chunk
    \/ raw_push_exit
    \/ raw_fill_enter
    \/ raw_fill_chunk
    \/ raw_fill_exit
    \/ op_done
    \/ lcd_spi_init
    \/ lcd_init_display_reset
    \/ lcd_init_display_done
    \/ setup_flash
    \/ setup_fill
    \/ setup_wifi
    \/ setup_showImage
    \/ setup_restart
    \/ setup_done
    \/ esp_restart
    \/ gfx_setup_reset
    \/ gfx_begin
    \/ gfx_colmod
    \/ eyes_begin
    \/ eyes_setMode
    \/ eyes_sceneHome
    \/ serial_rx
    \/ boot_pin
    \/ pollSerial
    \/ pollBoot
    \/ loop_delay
    \/ pattern_rows
    \/ push_row
    \/ pattern_next
    \/ showImage_get
    \/ showImage_fail
    \/ showImage_alloc
    \/ showImage_read
    \/ showImage_end
    \/ jpeg_decode
    \/ jpegDrawCallback
    \/ showImage_free

SpecApp == Init /\ [][NextApp]_vars

\* The selection stays in its range (type check of the loop state).
AppTypeOK ==
    /\ currentPattern \in 0..4
    /\ lastBoot \in BOOLEAN
    /\ pin \in {0, 1}
    /\ now \in 0..MaxTime
    /\ lastDebounce \in 0..MaxTime

(* ---------------- C19 ---------------- *)

\* BOOT has been LOW for longer than the debounce interval and has been polled
\* since: the poll of this pass of loop() is over.
PressDebounced ==
    /\ press.held
    /\ pc = "loop_delay"
    /\ now - press.at > DEBOUNCE_MS

\* C19: a press of BOOT (a HIGH-to-LOW transition that has stayed LOW for more
\* than the 40 ms debounce interval, polled on every pass of loop()) makes the
\* selecting call, for (current + 1) mod 5, exactly once.
C19_PressCyclesOnce ==
    /\ press.cycles <= 1
    /\ PressDebounced => press.cycles = 1

\* What the polls do instead: no press ever reaches the selecting call.
PressNeverSelects == press.cycles = 0

(* ---------------- C20 ---------------- *)

\* Arguments showPattern and setMode are normalised for.
NormArgs == -12..12

\* pollSerial reads one character.
ReadsChar ==
    /\ pc = "idle"
    /\ rx # <<>>
    /\ rx' = Tail(rx)

\* A drawing call has begun, or (robot eyes) the screen has been cleared by
\* setMode, the log of the step starting with that call.
DrawBegun ==
    \/ pc' \in {"fill", "rawfill", "row"}
    \/ sketch = "eyes" /\ log'[1] = Event("draw", 1, cs) /\ Len(log') <= 2

\* C20: the selection is always in 0..4, showPattern and setMode normalising
\* any argument by (m % 5 + 5) % 5; a character '0'..'4' selects c - '0' and
\* draws; any other character leaves the selection as it was and draws
\* nothing.
C20_SelectionInRange ==
    /\ [](currentPattern \in 0..4)
    /\ [](\A m \in NormArgs : Norm(m) \in 0..4 /\ Norm(m) = m % 5)
    /\ [][ReadsChar =>
            IF Head(rx) \in 48..52
            THEN /\ currentPattern' = Head(rx) - 48
                 /\ DrawBegun
            ELSE UNCHANGED <<currentPattern, pc, ret, log, cur, cs, lcd_px_buf,
                             lcd_cmd_buf, prevWin>>]_vars

\* '4' has selected the gradient, which is being drawn, or has been drawn
\* and a newline waits to be read.
C20_Witness ==
    /\ currentPattern = 4
    /\ sketch = "pattern"
    /\ \/ pc = "row_push"
       \/ pc = "idle" /\ rx = <<10>>

(* ---------------- C15 ---------------- *)

\* 0 <= x1 <= x2 < w and 0 <= y1 <= y2 < h
ValidIn(r, w, h) ==
    /\ 0 <= r[1] /\ r[1] <= r[3] /\ r[3] < w
    /\ 0 <= r[2] /\ r[2] <= r[4] /\ r[4] < h

\* The window lcd_fill programs on a panel w wide and h high.
FillRect(w, h) == <<0, 0, w - 1, h - 1>>

\* The windows and byte counts of the pattern viewer at the size of the real
\* panel: lcd_fill, and push_row for every row of pattern3 and pattern4.
PatternWindowsAtScale ==
    /\ ValidIn(FillRect(SCREEN_W, SCREEN_H), SCREEN_W, SCREEN_H)
    /\ RectBytes(FillRect(SCREEN_W, SCREEN_H)) = SCREEN_W * SCREEN_H * 2
    /\ FillLoop(SCREEN_W * SCREEN_H, SCREEN_W).bytes
          = RectBytes(FillRect(SCREEN_W, SCREEN_H))
    /\ \A row \in 0..(SCREEN_H - 1) :
          /\ ValidIn(RowRect(row, SCREEN_W), SCREEN_W, SCREEN_H)
          /\ RectBytes(RowRect(row, SCREEN_W)) = SCREEN_W * 2
          /\ (row * Len(bars)) \div SCREEN_H + 1 \in 1..Len(bars)
          /\ Len(pattern3(row, SCREEN_W, SCREEN_H)) = SCREEN_W * 2
          /\ Len(pattern4(row, SCREEN_W, SCREEN_H)) = SCREEN_W * 2

\* C15: every window the pattern viewer programs, through lcd_fill and
\* through push_row for every row of patterns 3 and 4, lies on the panel
\* (0 <= x1 <= x2 < width, 0 <= y1 <= y2 < height), and the pixel bytes
\* streamed into it number (x2-x1+1)*(y2-y1+1)*2.
C15_PatternWindows ==
    /\ pc = "boot" => PatternWindowsAtScale
    /\ sketch = "pattern" =>
        /\ Completed("window") =>
              /\ ValidIn(cur.rect, PanelW, PanelH)
              /\ RegWrites(TxOnly(log)) = WindowWrites(cur.rect)
        /\ Completed("push") =>
              /\ prevWin.set
              /\ ValidIn(prevWin.rect, PanelW, PanelH)
              /\ Len(ConcatData(PixelTxs(log))) = RectBytes(prevWin.rect)
        /\ Completed("fill") =>
              /\ ValidIn(FillRect(PanelW, PanelH), PanelW, PanelH)
              /\ SubSeq(RegWrites(TxOnly(log)), 1, 2)
                    = WindowWrites(FillRect(PanelW, PanelH))
              /\ Len(ConcatData(PixelTxs(log)))
                    = RectBytes(FillRect(PanelW, PanelH))

\* The last row of the gradient has been streamed into its window.
C15_Witness ==
    /\ sketch = "pattern"
    /\ Completed("push")
    /\ currentPattern = 4
    /\ y = PanelH - 1
    /\ prevWin.rect = RowRect(PanelH - 1, PanelW)
    /\ Len(ConcatData(PixelTxs(log))) = PanelW * 2

(* ---------------- C14 ---------------- *)

\* A streaming call is running or has just returned; the log holds its
\* transactions, and prevWin the call before it when that was a window write.
StreamRunning ==
    /\ cur.op \in {"push", "fill"}
    /\ pc \in {"push", "push_loop", "push_next", "px_tx",
              "fill", "cmd", "cmd_tx", "cmd_end", "fill_start", "fill_loop",
              "fill_next", "rawpush", "rawpush_loop", "rawfill", "rawfill_loop",
              "op_done"}

IsStartTx(e) == IsPixelTx(e) /\ Marker(e) = "start"

\* The two transactions are the column-address write, then the row-address
\* write, through the command channel.
IsWindowWrite(a, b) ==
    /\ a.cmd = \h02 /\ a.mode = "single" /\ a.addr = \h2A * 256
    /\ b.cmd = \h02 /\ b.mode = "single" /\ b.addr = \h2B * 256
    /\ Len(a.data) = 4
    /\ Len(b.data) = 4

\* C14: every pixel transaction with the start marker comes directly after
\* the 0x2A and 0x2B command transactions of a window write, in that order
\* and with no bus transaction in between: inside lcd_fill / fillDisplayRaw,
\* and for row pushes and decoded-block blits from the window call that
\* precedes the stream.
C14_WindowBeforeStream ==
    StreamRunning =>
        LET txs == TxOnly(log) IN
        \A i \in 1..Len(txs) :
            IsStartTx(txs[i]) =>
                IF cur.op = "fill"
                THEN /\ i = 3
                     /\ IsWindowWrite(txs[1], txs[2])
                ELSE /\ i = 1
                     /\ prevWin.set
                     /\ Len(prevWin.txs) = 2
                     /\ IsWindowWrite(prevWin.txs[1], prevWin.txs[2])
                     /\ RegWrites(prevWin.txs) = WindowWrites(prevWin.rect)

\* A decoded block of more than one chunk has been blitted after its window
\* write.
C14_Witness ==
    /\ sketch \in {"held", "gfxraw"}
    /\ Completed("push")
    /\ prevWin.set
    /\ prevWin.rect \in BlitRects
    /\ Len(PixelTxs(log)) >= 2
    /\ IsStartTx(PixelTxs(log)[1])

(* ---------------- C11 ---------------- *)

\* A session is open: its start-marker transaction is on the bus and the
\* streaming call has not returned.
SessionOpen ==
    /\ StreamRunning
    /\ pc # "op_done"
    /\ \E i \in 1..Len(log) : IsStartTx(log[i])

\* The bytes the open session has to stream.
SessionData ==
    IF cur.op = "fill" THEN ColorStream(cur.color, PanelW * PanelH)
    ELSE cur.data

\* A later chunk of a session: pixel data from the staging buffer with the
\* continuation marker, or with the marker elided (held variant).
IsLaterChunk(e) ==
    /\ IsPixelTx(e)
    /\ Marker(e) \in {"cont", "elided"}
    /\ CarriesPixels(e)

\* C11: sessions do not interleave.  From the start-marker transaction of a
\* session until its streaming call returns, the call in progress stays the
\* same and the only bus transactions dispatched are later chunks of that
\* session, carrying its next bytes: no command transaction, no window
\* write, no start marker of another session; so also for a session issued
\* from the decoder's draw callback.
C11_NoInterleaving ==
    [][SessionOpen =>
        /\ cur' = cur
        /\ Len(log') >= Len(log)
        /\ SubSeq(log', 1, Len(log)) = log
        /\ \A i \in (Len(log) + 1)..Len(log') :
              log'[i].ev = "tx" => IsLaterChunk(log'[i])
        /\ LET sent == ConcatData(PixelTxs(log')) IN
              /\ Len(sent) <= Len(SessionData)
              /\ sent = SubSeq(SessionData, 1, Len(sent))
        /\ Len(SelectSeq(log', IsStartTx)) = 1]_vars

\* A session issued from the draw callback is open with its first chunk sent
\* and more to send.
C11_Witness ==
    /\ sketch \in {"held", "gfxraw"}
    /\ SessionOpen
    /\ cur.op = "push"
    /\ prevWin.set
    /\ prevWin.rect \in BlitRects
    /\ Len(PixelTxs(log)) = 1
    /\ px.bytes > 0
    /\ pc \in {"push_loop", "rawpush_loop"}

(* ---------------- C22 ---------------- *)

\* The delay() that follows the lcd_cmd call whose transmit call is event i
\* of the log: the event after its cs_high(), when that is a delay; else 0.
DelayAfter(l, i) ==
    IF i + 2 <= Len(l) /\ l[i + 2].ev = "delay" THEN l[i + 2].v ELSE 0

\* The delay the source puts after the write of register reg.
SettleDelay(reg) ==
    IF reg = \h28 THEN 20
    ELSE IF reg = \h11 THEN 200
    ELSE IF reg = \h29 THEN 100
    ELSE 0

\* C22 as the specification has it: the reset line is driven HIGH, LOW, HIGH
\* with delays of 10, 130 and 300 ms, and every command write of the sequence
\* up to display-on is followed by a delay of its own.
C22_EveryStepSettles ==
    InitRunOver =>
        /\ IsHardwareReset(SubSeq(log, 1, 6))
        /\ \A i \in 1..Len(log) :
              (log[i].ev = "tx" /\ log[i].addr # \h36 * 256) =>
                  DelayAfter(log, i) > 0

\* C22, amended: the reset line is driven HIGH, LOW, HIGH with delays of 10,
\* 130 and 300 ms; display-off (0x28) is followed by 20 ms, sleep-out (0x11)
\* by 200 ms and display-on (0x29) by 100 ms; every other command write
\* (sleep-in, the register programs, unlock and lock, inversion-off, colour
\* depth, orientation) is followed by the next one with no delay.
C22_SettleDelays ==
    InitRunOver =>
        /\ IsHardwareReset(SubSeq(log, 1, 6))
        /\ \A i \in 1..Len(log) :
              log[i].ev = "tx" =>
                  /\ i + 1 <= Len(log)
                  /\ log[i + 1] = Event("cs", 1, 1)
                  /\ DelayAfter(log, i) = SettleDelay(log[i].addr \div 256)
        /\ Len(SelectSeq(log, LAMBDA e : e.ev = "delay")) = 6

\* An initialization run is over: sleep-out was followed by its 200 ms and
\* sleep-in by the unlock write at once.
C22_Witness ==
    /\ InitRunOver
    /\ \E i \in 1..Len(log) :
          /\ log[i].ev = "tx"
          /\ log[i].addr = \h11 * 256
          /\ DelayAfter(log, i) = 200
    /\ \E i \in 1..Len(log) :
          /\ log[i].ev = "tx"
          /\ log[i].addr = \h10 * 256
          /\ DelayAfter(log, i) = 0

(* ---------------- C23 ---------------- *)

\* A fill is past its pre-fill loop and has not returned: it is writing its
\* window or sending its chunks.
FillPrefilled ==
    /\ cur.op = "fill"
    /\ pc \in {"cmd", "cmd_tx", "cmd_end", "fill_start", "fill_loop", "px_tx",
              "fill_next", "rawfill_loop"}

\* C23: during a full-screen fill the pixel staging buffer is written once,
\* with the repeating two-byte colour pattern, before the first chunk, and is
\* not written again until the last chunk has gone; the window write between
\* the pre-fill and the first chunk goes through the command buffer (the
\* stack arrays in the Arduino_GFX viewer), never the pixel staging buffer,
\* and every chunk is read from the pixel staging buffer.
C23_PrefillOnce ==
    /\ [](FillPrefilled =>
            /\ lcd_px_buf = ColorStream(cur.color, PxCap(sketch) \div 2)
            /\ \A i \in 1..Len(log) :
                  log[i].ev = "tx" =>
                      IF IsPixelTx(log[i])
                      THEN /\ log[i].buf = "lcd_px_buf"
                           /\ log[i].data
                                 = SubSeq(lcd_px_buf, 1, Len(log[i].data))
                      ELSE log[i].buf
                              = IF sketch = "gfxraw" THEN "stack"
                                ELSE "lcd_cmd_buf")
    /\ [][FillPrefilled => lcd_px_buf' = lcd_px_buf]_vars

\* A green fill of several chunks has returned, the staging buffer holding
\* the pattern it was given at the start.
C23_Witness ==
    /\ Completed("fill")
    /\ cur.color = \h07E0
    /\ Len(PixelTxs(log)) >= 2
    /\ lcd_px_buf = ColorStream(\h07E0, PxCap(sketch) \div 2)
    /\ lcd_px_buf[1] = \h07
    /\ lcd_px_buf[2] = \hE0

(* ---------------- C24 ---------------- *)

\* bus.max_transfer_sz = sizeof(lcd_px_buf) + 8
max_transfer_sz(cap) == cap + 8

\* Byte counts the chunk length is computed for at the size of the real
\* buffer: up to three buffers and a byte.
RealChunkInputs == 1..(3 * SCREEN_W * 2 + 1)

\* The chunk lengths of lcd_push_be with the 960-byte buffer of the real
\* panel.
RealChunkLens ==
    /\ PxBufSize("pattern", SCREEN_W) = 960
    /\ max_transfer_sz(PxBufSize("pattern", SCREEN_W)) = 968
    /\ \A n \in RealChunkInputs :
          LET chunk == ChunkLen(n, PxBufSize("pattern", SCREEN_W)) IN
              /\ chunk \in 1..960
              /\ n > 960 => chunk = 960
              /\ n <= 960 => chunk = n
              /\ n % 2 = 0 => chunk % 2 = 0 /\ (n - chunk) % 2 = 0

\* The bytes of the streaming call in progress or just returned.
StreamTotal ==
    IF cur.op = "fill" THEN PanelW * PanelH * 2 ELSE Len(cur.data)

\* C24: every pixel transaction carries between 1 byte and the capacity of
\* the staging buffer, which is below the bus's max_transfer_sz (capacity +
\* 8; 960 and 968 bytes on the real panel); every chunk but the last is
\* exactly the capacity; and when the total is even every chunk is even, so
\* that no 16-bit pixel is split between two chunks.
C24_ChunkLengths ==
    /\ pc = "boot" => RealChunkLens
    /\ StreamRunning =>
        LET txs == PixelTxs(log) IN
            /\ \A i \in 1..Len(txs) :
                  /\ Len(txs[i].data) >= 1
                  /\ Len(txs[i].data) <= PxCap(sketch)
                  /\ Len(txs[i].data) < max_transfer_sz(PxCap(sketch))
                  /\ i < Len(txs) => Len(txs[i].data) = PxCap(sketch)
                  /\ StreamTotal % 2 = 0 => Len(txs[i].data) % 2 = 0
            /\ Completed(cur.op) =>
                  Len(ConcatData(txs)) = StreamTotal

\* A stream of an even number of bytes has returned: full chunks, then a
\* shorter last one.
C24_Witness ==
    /\ Completed("push")
    /\ Len(cur.data) % 2 = 0
    /\ Len(PixelTxs(log)) >= 2
    /\ Len(PixelTxs(log)[1].data) = PxCap(sketch)
    /\ Len(PixelTxs(log)[Len(PixelTxs(log))].data) < PxCap(sketch)

(* ---------------- C25 ---------------- *)

\* The step dispatches a bus transaction.
Dispatches == Len(TxOnly(log')) = Len(TxOnly(log)) + 1

\* The one completed run of the sequence ended with the orientation write.
SequenceComplete ==
    /\ initialized
    /\ Len(initRuns) = 1
    /\ Len(initRuns[1]) = Len(InitProgram)
    /\ initRuns[1][Len(initRuns[1])].addr = \h36 * 256

\* C25: in the direct-SPI sketches no bus transaction is attempted before
\* lcd_spi_init has succeeded; the initialization sequence runs exactly once
\* in a session, after that; and no window write or pixel transaction is
\* dispatched before the sequence has completed with its orientation write.
C25_BootOrdering ==
    /\ [](sketch \in SpiSketches =>
            /\ Len(initRuns) <= 1
            /\ initialized <=> Len(initRuns) = 1
            /\ pc \in {"boot", "halt"} => TxOnly(log) = <<>> /\ ~initialized
            /\ pc = "idle" => SequenceComplete)
    /\ [][(sketch \in SpiSketches /\ Dispatches) =>
            /\ pc \notin {"boot", "halt"}
            /\ ~fatal
            /\ IF cur.op = "init"
               THEN ~initialized /\ initRuns = <<>>
               ELSE cur.op \in {"window", "push", "fill"} /\ SequenceComplete]_vars

\* setup() is over and a row has been pushed from loop(): the sequence ran
\* once, before it.
C25_Witness ==
    /\ sketch = "pattern"
    /\ Completed("push")
    /\ after = "idle"
    /\ SequenceComplete
    /\ ~fatal

(* ---------------- showImage: the download ---------------- *)

\* The arguments the harness passes to showImage.
ImageArgs == {-1, 0, NUM_IMAGES - 1, NUM_IMAGES}

\* Values of millis() at which the harness calls showImage: just after the
\* start, and so late that millis() + 15000 wraps.
CallTimes == {0, MillisMod - FetchTimeout}

\* Time goes by between two calls, up to one of the call times.
tick ==
    /\ sketch \in {"held", "gfxraw"}
    /\ pc = "idle"
    /\ \E m \in CallTimes \ {now} : now' = m
    /\ UNCHANGED <<sketch, pc, ret, cs, lcd_px_buf, lcd_cmd_buf, cmds, t, px, log,
                   cur, prevWin, fault, fatal, initialized, initRuns, bootq,
                   currentPattern, lastBoot, lastDebounce, pin, rx, y, after,
                   press>>
    /\ UNCHANGED auxvars

\* showImage(idx) called with any argument.
api_showImage ==
    /\ sketch \in {"held", "gfxraw"}
    /\ pc = "idle"
    /\ now \in CallTimes
    /\ \E idx \in ImageArgs : showImage(idx, "idle")
    /\ UNCHANGED drivervars
    /\ UNCHANGED <<lastBoot, lastDebounce, now, pin, rx, press, droidvars>>

\* The image viewers with showImage called freely once setup() is over.
InitImage == \E s \in {"held", "gfxraw"}, level \in {0, 1} : PowerOn(s, level)

NextImage ==
    \/ spi_device_polling_transmit
    \/ lcd_cmd_begin
    \/ lcd_cmd_end
    \/ lcd_push_be_enter
    \/ lcd_push_be_chunk
    \/ lcd_push_be_next
    \/ lcd_push_be_exit
    \/ lcd_fill_prefill
    \/ lcd_fill_start
    \/ lcd_fill_chunk
    \/ lcd_fill_next
    \/ lcd_fill_exit
    \/ raw_window
    \/ raw_push_enter
    \/ raw_push_chunk
    \/ raw_push_exit
    \/ raw_fill_enter
    \/ raw_fill_chunk
    \/ raw_fill_exit
    \/ op_done
    \/ lcd_spi_init
    \/ lcd_init_display_reset
    \/ lcd_init_display_done
    \/ setup_flash
    \/ setup_fill
    \/ setup_wifi
    \/ setup_showImage
    \/ setup_restart
    \/ setup_done
    \/ esp_restart
    \/ gfx_setup_reset
    \/ gfx_begin
    \/ gfx_colmod
    \/ tick
    \/ api_showImage
    \/ showImage_get
    \/ showImage_fail
    \/ showImage_alloc
    \/ showImage_read
    \/ showImage_end
    \/ jpeg_decode
    \/ jpegDrawCallback
    \/ showImage_free

SpecImage == InitImage /\ [][NextImage]_vars

\* The locals of showImage stay in their ranges.
FetchTypeOK ==
    /\ fetch.http \in {"none", "begun", "ended"}
    /\ fetch.buf \in {"none", "allocated", "freed"}
    /\ fetch.total \in 0..DefaultBuf
    /\ fetch.elapsed \in 0..(FetchTimeout + PollMs)
    /\ now \in 0..(MillisMod - 1)

(* ---------------- C26 ---------------- *)

\* The argument of the last call of showImage is an image number.
ValidIdx == fetch.idx \in 0..(NUM_IMAGES - 1)

\* showImage is about to return after a download or a decode that failed: the
\* GET or the allocation failed, nothing was received, or no block was decoded.
FetchFailed ==
    \/ pc = "img_fail"
    \/ pc = "img_end" /\ fetch.total = 0
    \/ pc = "img_free" /\ y = 0

\* C26: showImage(idx) with idx outside 0..NUM_IMAGES-1 returns at once: the
\* selection, the display and the network are left alone. The selection is in
\* 0..4 in every state; a valid idx becomes the selection before the fetch and
\* stays the selection when the download or the decode fails, the screen being
\* black then.
C26_RangeCheck ==
    /\ [](sketch \in {"held", "gfxraw"} => currentPattern \in 0..4)
    /\ [](ValidIdx => currentPattern = fetch.idx)
    /\ [](~ValidIdx => pc = "idle" /\ fetch.http = "none")
    /\ [](FetchFailed => currentPattern = fetch.idx /\ cur = FillOp(\h0000))
    /\ [][fetch'.idx \notin 0..(NUM_IMAGES - 1) =>
            /\ currentPattern' = currentPattern
            /\ log' = log
            /\ cur' = cur
            /\ cs' = cs
            /\ pc' = "idle"]_vars

\* showImage(NUM_IMAGES) has returned, the selection still that of
\* showImage(NUM_IMAGES - 1) before it.
C26_Witness ==
    /\ pc = "idle"
    /\ fetch.idx = NUM_IMAGES
    /\ currentPattern = NUM_IMAGES - 1
    /\ cur = FillOp(\h0000)

(* ---------------- C27 ---------------- *)

\* jpeg.openRAM has been given the buffer and jpeg.close has not run yet.
DecoderActive ==
    \/ pc \in {"blit", "blit_push"}
    \/ Len(ret) = 2 /\ ret[2] \in {"blit", "blit_push"}

\* showImage has returned to its caller, loop() or setup().
ShowImageReturned ==
    /\ sketch \in {"held", "gfxraw"}
    /\ pc \in {"idle", "next"}

\* C27: whichever way showImage returns (HTTP status not OK, no memory, nothing
\* received, decode failure, success), the HTTP session that http.begin opened
\* has been ended exactly once, and the download buffer, if it was allocated,
\* has been freed exactly once; the download and the decoder use the buffer only
\* while it is allocated.
C27_SessionAndBuffer ==
    /\ fetch.ends <= 1
    /\ fetch.frees <= 1
    /\ fetch.ends = 1 <=> fetch.http = "ended"
    /\ fetch.frees = 1 <=> fetch.buf = "freed"
    /\ ShowImageReturned => fetch.http # "begun" /\ fetch.buf # "allocated"
    /\ pc \in {"img_read", "img_end"} => fetch.buf = "allocated"
    /\ pc = "img_read" => fetch.http = "begun"
    /\ fetch.buf # "none" => fetch.http # "none"
    /\ DecoderActive => fetch.buf = "allocated"

\* showImage has returned after drawing a decoded image: the session is ended
\* and the buffer freed.
C27_Witness ==
    /\ ShowImageReturned
    /\ fetch.http = "ended"
    /\ fetch.buf = "freed"
    /\ cur.op = "push"

(* ---------------- C28 ---------------- *)

\* The download loop has been left and http.end() comes next.
LoopLeft == pc = "img_end"

\* Why the loop may be left: the announced length is there, the peer has gone
\* with nothing left to read, the buffer is full, or the time is up.
ExitJustified ==
    \/ fetch.contentLen > 0 /\ fetch.total >= fetch.contentLen
    \/ fetch.exit = "disconnected"
    \/ fetch.total >= fetch.bufSize
    \/ fetch.elapsed >= FetchTimeout

\* The received bytes fit the buffer, and one read adds no more than the room
\* that is left.
TotalWithinBuffer ==
    /\ [](pc \in {"img_read", "img_end"} => fetch.total <= fetch.bufSize)
    /\ [][pc = "img_read" =>
            /\ fetch'.total >= fetch.total
            /\ fetch'.total - fetch.total <= MaxAvail
            /\ fetch'.total - fetch.total <= fetch.bufSize - fetch.total]_vars

\* C28: in the download loop of showImage the byte count never exceeds the
\* size of the buffer (total <= bufSize in every pass, each read limited to
\* min(available, bufSize - total)), and the loop is left when the content
\* length is reached, the peer has disconnected with nothing available, the
\* buffer is full, or the 15-second deadline has passed.
C28_DownloadLoop ==
    /\ TotalWithinBuffer
    /\ [](LoopLeft => ExitJustified)

\* The call was made so late that millis() + 15000 wrapped.
DeadlineWrapped == fetch.deadline < FetchTimeout

\* The exits of a download whose deadline did not wrap are those of the claim.
ExitsWithoutWrap == LoopLeft /\ ~DeadlineWrapped => ExitJustified

\* The loop has been left with a full buffer.
BufferFilled ==
    /\ LoopLeft
    /\ fetch.contentLen <= 0
    /\ fetch.total = fetch.bufSize

(* ---------------- the Android app: MainActivity ---------------- *)

\* Step of the clock of the main looper, in milliseconds.
TickMs == 100
\* Most runnables posted and permission requests unanswered together.
MaxPending == 3

\* The state of the ESP32, which the activity does not touch.
espvars == <<drivervars, pc, ret, cmds, log, cur, currentPattern, lastBoot,
             lastDebounce, now, pin, rx, y, after, press, fetch>>

\* A posted runnable is due: the looper runs it before anything newer.
Due == \E i \in 1..Len(posted) : posted[i].due = 0

\* The first runnable that is due, in the order of posting.
FirstDue == CHOOSE i \in 1..Len(posted) :
                /\ posted[i].due = 0
                /\ \A j \in 1..(i - 1) : posted[j].due # 0

\* The queue without its i-th runnable.
Without(q, i) == SubSeq(q, 1, i - 1) \o SubSeq(q, i + 1, Len(q))

\* "$num\n".toByteArray(): the digit and a line feed
SendData(num) == <<48 + num, 10>>

\* openSerial() runs to its end: no driver, no connection, the port opened, or
\* open / setParameters has thrown and the handler has run.
openSerial_returns ==
    /\ reopened' = (reopened \/ port # "null")
    /\ \E found \in BOOLEAN, connection \in BOOLEAN, ok \in BOOLEAN :
        IF ~found
        THEN /\ port' = port
             /\ toasted' = "No USB drivers found"
        ELSE IF ~connection
        THEN /\ port' = port
             /\ toasted' = "Failed to open USB device"
        ELSE IF ok
        THEN /\ port' = "open"
             /\ toasted' = "Connected"
        ELSE /\ port' = "null"
             /\ toasted' = "Connection error"

\* openSerial() is left by an exception of findAllDrivers or openDevice, which
\* are outside its try.
openSerial_throws ==
    /\ reopened' = (reopened \/ port # "null")
    /\ port' = port

\* requestUsbPermission(); the handler of its try runs when a call in it, or in
\* the openSerial it calls, throws.
requestUsbPermission ==
    IF permissionRequested
    THEN /\ toasted' = "Permission already requested"
         /\ UNCHANGED <<port, permissionRequested, outstanding, reopened>>
    ELSE \/ /\ permissionRequested' = FALSE
            /\ toasted' = "Error requesting permission"
            /\ UNCHANGED <<port, outstanding, reopened>>
         \/ /\ permissionRequested' = FALSE
            /\ toasted' = "No ESP32 found"
            /\ UNCHANGED <<port, outstanding, reopened>>
         \/ /\ hasPermission
            /\ permissionRequested' = FALSE
            /\ \/ openSerial_returns
               \/ /\ openSerial_throws
                  /\ toasted' = "Error requesting permission"
            /\ UNCHANGED outstanding
         \/ /\ ~hasPermission
            /\ permissionRequested' = TRUE
            /\ toasted' = "Grant permission in the dialog"
            /\ outstanding' = outstanding + 1
            /\ UNCHANGED <<port, reopened>>

\* Mutation of send: a failed write drops the port.
send_DropsPort(num) ==
    /\ IF port # "null"
       THEN \E ok \in BOOLEAN :
            IF ok
            THEN /\ wire' = [button |-> num, data |-> SendData(num),
                             seq |-> 1 - wire.seq]
                 /\ toasted' = "Sent"
                 /\ port' = port
            ELSE /\ wire' = [button |-> num, data |-> <<>>, seq |-> 1 - wire.seq]
                 /\ toasted' = "Send failed"
                 /\ port' = "null"
       ELSE /\ wire' = [button |-> num, data |-> <<>>, seq |-> 1 - wire.seq]
            /\ toasted' = "Not connected"
            /\ port' = port

\* send(num): port.write succeeds or throws
send(num) ==
    /\ IF port # "null"
       THEN \E ok \in BOOLEAN :
            IF ok
            THEN /\ wire' = [button |-> num, data |-> SendData(num),
                             seq |-> 1 - wire.seq]
                 /\ toasted' = "Sent"
            ELSE /\ wire' = [button |-> num, data |-> <<>>, seq |-> 1 - wire.seq]
                 /\ toasted' = "Send failed"
       ELSE /\ wire' = [button |-> num, data |-> <<>>, seq |-> 1 - wire.seq]
            /\ toasted' = "Not connected"
    /\ port' = port

\* The process of the app is alive.
Alive == ~activity.crashed

\* The views of the activity can be touched.
Shown == Alive /\ activity.created /\ ~activity.destroyed

\* The listeners in the order onCreate sets them: btnReconnect, btn1 .. btn4.
Listeners == <<"btnReconnect", "btn1", "btn2", "btn3", "btn4">>

\* onCreate(): it returns with the receiver registered, the five listeners set
\* and the start-up request posted; or a call in its try throws, after the
\* receiver (registered) and the first (set) listeners, and the handler toasts
\* and calls finish().
onCreate ==
    /\ Alive
    /\ ~activity.created
    /\ \/ /\ activity' = [activity EXCEPT !.created = TRUE, !.receiver = TRUE,
                                           !.listeners = Len(Listeners)]
          /\ posted' = Append(posted, Posted("startup", START_DELAY_MS))
          /\ UNCHANGED toasted
       \/ /\ \E registered \in BOOLEAN, set \in 0..Len(Listeners) :
               /\ set > 0 => registered
               /\ activity' = [activity EXCEPT !.created = TRUE,
                                               !.isFinishing = TRUE,
                                               !.receiver = registered,
                                               !.listeners = set]
          /\ toasted' = "Error initializing app"
          /\ UNCHANGED posted
    /\ UNCHANGED <<port, permissionRequested, outstanding, hasPermission,
                   reopened, wire>>
    /\ UNCHANGED espvars

\* Time goes by while no runnable is due.
elapse ==
    /\ Alive
    /\ posted # <<>>
    /\ ~Due
    /\ posted' = [i \in 1..Len(posted) |->
                    [posted[i] EXCEPT !.due = IF @ > TickMs THEN @ - TickMs ELSE 0]]
    /\ UNCHANGED <<port, permissionRequested, outstanding, hasPermission,
                   reopened, wire, activity, toasted>>
    /\ UNCHANGED espvars

\* The looper runs the runnable that is due:
\* { if (!isFinishing) requestUsbPermission() }, { requestUsbPermission() }
\* or { openSerial() }, whose exception nothing catches.
postDelayed_run ==
    /\ Alive
    /\ Due
    /\ IF posted[FirstDue].run = "startup"
       THEN /\ posted' = Without(posted, FirstDue)
            /\ IF activity.isFinishing
               THEN UNCHANGED <<port, permissionRequested, outstanding, reopened,
                                toasted>>
               ELSE requestUsbPermission
            /\ UNCHANGED activity
       ELSE IF posted[FirstDue].run = "requestUsbPermission"
       THEN /\ posted' = Without(posted, FirstDue)
            /\ requestUsbPermission
            /\ UNCHANGED activity
       ELSE \/ /\ posted' = Without(posted, FirstDue)
               /\ openSerial_returns
               /\ UNCHANGED <<permissionRequested, outstanding, activity>>
            \/ /\ openSerial_throws
               /\ activity' = [activity EXCEPT !.crashed = TRUE]
               /\ posted' = <<>>
               /\ UNCHANGED <<permissionRequested, outstanding, toasted>>
    /\ UNCHANGED <<hasPermission, wire>>
    /\ UNCHANGED espvars

\* The listener of btnReconnect; port?.close() may throw.
btnReconnect_onClick ==
    /\ Shown
    /\ activity.listeners >= 1
    /\ ~Due
    /\ Len(posted) + outstanding < MaxPending
    /\ permissionRequested' = FALSE
    /\ \/ /\ port' = "null"
          /\ toasted' = "Attempting to reconnect"
          /\ posted' = Append(posted,
                              Posted("requestUsbPermission", RECONNECT_DELAY_MS))
       \/ /\ port # "null"
          /\ port' = port
          /\ toasted' = "Reconnect failed"
          /\ posted' = posted
    /\ UNCHANGED <<outstanding, hasPermission, reopened, wire, activity>>
    /\ UNCHANGED espvars

\* The listeners of btn1 .. btn4.
btn_onClick ==
    /\ Shown
    /\ ~Due
    /\ \E num \in 1..4 :
        /\ activity.listeners >= 1 + num
        /\ send(num)
    /\ UNCHANGED <<permissionRequested, posted, outstanding, hasPermission,
                   reopened, activity>>
    /\ UNCHANGED espvars

\* usbPermissionReceiver.onReceive while the receiver is registered: the answer
\* of the system to one permission request, or a broadcast of the same action
\* by another sender (the receiver is exported below API 33). The intent filter
\* lets no other action through. granted is what getBooleanExtra reads: with
\* the PendingIntent built FLAG_IMMUTABLE (API 31 and later) the answer of the
\* system carries no extra and it reads false also when the user has granted
\* (held); with the mutable one it reads the user's answer. A call in the try
\* may throw: the handler toasts and clears permissionRequested.
usbPermissionReceiver_onReceive ==
    /\ Alive
    /\ activity.receiver
    /\ ~Due
    /\ \E granted \in BOOLEAN, threw \in BOOLEAN :
        /\ \/ /\ outstanding > 0
              /\ outstanding' = outstanding - 1
              /\ \E held \in BOOLEAN :
                    /\ granted => held
                    /\ hasPermission' = (hasPermission \/ held)
           \/ /\ Len(posted) + outstanding < MaxPending
              /\ UNCHANGED <<outstanding, hasPermission>>
        /\ IF threw
           THEN /\ permissionRequested' = FALSE
                /\ toasted' = "Permission error"
                /\ UNCHANGED posted
           ELSE IF granted
           THEN /\ toasted' = "Permission granted"
                /\ posted' = Append(posted, Posted("openSerial", OPEN_DELAY_MS))
                /\ UNCHANGED permissionRequested
           ELSE /\ permissionRequested' = FALSE
                /\ toasted' = "USB permission denied"
                /\ UNCHANGED posted
    /\ UNCHANGED <<port, reopened, wire, activity>>
    /\ UNCHANGED espvars

\* The user leaves the activity: isFinishing is true from now on.
finish ==
    /\ Shown
    /\ ~Due
    /\ ~activity.isFinishing
    /\ activity' = [activity EXCEPT !.isFinishing = TRUE]
    /\ UNCHANGED <<port, permissionRequested, posted, outstanding, hasPermission,
                   reopened, wire, toasted>>
    /\ UNCHANGED espvars

\* onDestroy(): port?.close(); port = null (skipped when close throws);
\* unregisterReceiver(usbPermissionReceiver). Posted runnables stay queued.
onDestroy ==
    /\ Shown
    /\ ~Due
    /\ activity' = [activity EXCEPT !.destroyed = TRUE, !.receiver = FALSE]
    /\ \/ port' = "null"
       \/ /\ port # "null"
          /\ port' = port
    /\ UNCHANGED <<permissionRequested, posted, outstanding, hasPermission,
                   reopened, wire, toasted>>
    /\ UNCHANGED espvars

\* The cable is pulled: the permission for the device is gone.
usb_detach ==
    /\ Alive
    /\ ~Due
    /\ hasPermission
    /\ hasPermission' = FALSE
    /\ UNCHANGED <<port, permissionRequested, posted, outstanding, reopened,
                   wire, activity, toasted>>
    /\ UNCHANGED espvars

InitAndroid == PowerOn("pattern", 1)

NextAndroid ==
    \/ onCreate
    \/ elapse
    \/ postDelayed_run
    \/ btnReconnect_onClick
    \/ btn_onClick
    \/ usbPermissionReceiver_onReceive
    \/ finish
    \/ onDestroy
    \/ usb_detach

SpecAndroid == InitAndroid /\ [][NextAndroid]_vars

\* The fields of the activity stay in their ranges.
ActivityTypeOK ==
    /\ port \in {"null", "open"}
    /\ permissionRequested \in BOOLEAN
    /\ hasPermission \in BOOLEAN
    /\ outstanding \in 0..MaxPending
    /\ Len(posted) + outstanding <= MaxPending
    /\ wire.button \in 0..4
    /\ activity \in [created : BOOLEAN, isFinishing : BOOLEAN,
                     destroyed : BOOLEAN, crashed : BOOLEAN,
                     receiver : BOOLEAN, listeners : 0..Len(Listeners)]
    /\ activity.listeners > 0 /\ ~activity.destroyed => activity.receiver
    /\ ~activity.created => posted = <<>> /\ toasted = "none"
    /\ activity.crashed => posted = <<>>

(* ---------------- C21 ---------------- *)

\* A button has been pressed in this step.
Pressed == wire'.seq # wire.seq

\* C21: pressing button n (1..4) while port refers to a port writes the serial
\* value n, the digit n and a line feed, which the sketches read as selection
\* n; pressing it while port is null writes nothing and reports 'Not
\* connected'; a write that throws is caught, nothing is sent, and port keeps
\* its value.
C21_Send ==
    /\ [][Pressed =>
            /\ wire'.button \in 1..4
            /\ port' = port
            /\ IF port = "null"
               THEN /\ wire'.data = <<>>
                    /\ toasted' = "Not connected"
               ELSE \/ /\ wire'.data = <<48 + wire'.button, 10>>
                       /\ toasted' = "Sent"
                    \/ /\ wire'.data = <<>>
                       /\ toasted' = "Send failed"]_vars
    /\ [](wire.data # <<>> =>
            /\ \A s \in Sketches : SelectsChar(s, wire.data[1])
            /\ wire.data[1] - 48 = wire.button
            /\ \A s \in Sketches : ~SelectsChar(s, wire.data[2]))

\* Button 3 has been pressed with the port open and its bytes have been written.
C21_Witness ==
    /\ port = "open"
    /\ wire.button = 3
    /\ wire.data = <<51, 10>>
    /\ toasted = "Sent"

\* A press with no port: nothing written, 'Not connected' reported.
PressedUnconnected ==
    /\ port = "null"
    /\ wire.button = 2
    /\ wire.data = <<>>
    /\ toasted = "Not connected"

(* ---------------- C29 ---------------- *)

\* C29: at most one USB permission request is outstanding at any time:
\* however the delayed start-up request, presses of Reconnect and the
\* permission broadcast interleave, usbManager.requestPermission is not called
\* while an earlier request is unanswered, and openSerial does not run while
\* port refers to an open port.
C29_OneRequestOutstanding ==
    /\ outstanding <= 1
    /\ ~reopened

\* The first half of the claim alone.
NoSecondRequest == outstanding <= 1

\* The second half of the claim alone.
NoSecondOpen == ~reopened

====
